---- MODULE Spec2Model ----
(***************************************************************************)
(* The Redis Labs service broker: the RLEC API client (apiclient), the     *)
(* instance binder (instancebinders) and the broker orchestrator with its  *)
(* state persister, as a state machine of concurrent platform requests     *)
(* talking to one cluster and sharing one state file.                      *)
(***************************************************************************)
EXTENDS Integers, Sequences, FiniteSets, TLC

(***************************************************************************)
(* Bounds of the model.                                                    *)
(***************************************************************************)
MaxCalls == 2      \* platform requests started in one behaviour
MaxPolls == 2      \* status requests one readiness poller sends
MaxListLen == 1    \* databases in one GET /v1/bdbs answer
MaxRecords == 2    \* records in a state given to Save
MaxParts == 2      \* parts of a peer-clusters string

(***************************************************************************)
(* The platform's request tasks and the values requests are drawn from.    *)
(***************************************************************************)
Procs == {"t1", "t2"}

ServiceID == "test-service"                       \* config.ServiceBroker.ServiceID
PlanIDs == {"test-plan-1", "test-plan-2"}         \* config.ServiceBroker.Plans[i].ID
InstanceIDs == {"some-id", "test-instance"}
BindingIDs == {"test-binding", "other-binding"}

Nil == "nil"

(***************************************************************************)
(* Errors.                                                                 *)
(***************************************************************************)
ErrServiceDoesNotExist == "service does not exist"
ErrPlanDoesNotExist == "plan does not exist"
ErrInstanceDoesNotExist == "instance does not exist"
ErrInstanceAlreadyExists == "instance already exists"
errDbIsNotActive == "db is not active"
ErrUnknownServer == "an unknown server error occurred"
ErrNoEndpoints == "No endpoints created"
ErrDBNotFound == "DB not found"
ErrQueryAPI == "failed to query API"
ErrParseResponse == "failed to parse response"
ErrTransport == "transport error"
ErrDecode == "json decode error"
ErrPersistence == "failed to save the state"

(***************************************************************************)
(* Strings the code inspects or builds are sequences of characters.        *)
(***************************************************************************)
Digits == <<"0", "1", "2", "3", "4", "5", "6", "7", "8", "9">>

RECURSIVE Itoa(_)
Itoa(n) ==
    IF n < 10 THEN <<Digits[n + 1]>>
    ELSE Itoa(n \div 10) \o <<Digits[(n % 10) + 1]>>

\* A test that looks for the hyphen at the head of the uid only.
isCRDBUIDLeadingHyphen(UID) == Len(UID) > 0 /\ UID[1] = "-"

isCRDBUID(UID) == \E i \in 1..Len(UID) : UID[i] = "-"

(***************************************************************************)
(* cluster.InstanceCredentials and persisters.ServiceInstance.             *)
(***************************************************************************)
ZeroCredentials ==
    [UID |-> <<>>, Host |-> <<>>, Port |-> 0, IPList |-> <<>>, Password |-> <<>>]

ServiceInstance(id, planID, creds) ==
    [ID |-> id, PlanID |-> planID, Credentials |-> creds]


(***************************************************************************)
(* HTTP answers.  An answer is a transport error or a status code with a   *)
(* body: a JSON object (a record keyed by the JSON keys), a JSON array or  *)
(* something json.Unmarshal rejects.                                       *)
(***************************************************************************)
TransportError == [transport |-> ErrTransport, StatusCode |-> 0, kind |-> "none", obj |-> <<>>]
Answer(code, kind, obj) == [transport |-> Nil, StatusCode |-> code, kind |-> kind, obj |-> obj]
Rejections ==
    { Answer(422, "object", [description |-> "invalid input data", error_code |-> "bad_request"]),
      Answer(500, "garbage", <<>>) }

Field(obj, key, zero) == IF key \in DOMAIN obj THEN obj[key] ELSE zero

(***************************************************************************)
(* The cluster.  Database n has uid n; its endpoint and password are fixed *)
(* by n, its status and whether the endpoint is listed vary from answer to  *)
(* answer.                                                                 *)
(***************************************************************************)
HostOf(n) == <<"h">> \o Itoa(n)
GuidOf(n) == <<"g", "-">> \o Itoa(n)
TaskOf(n) == <<"t">> \o Itoa(n)
EndpointOf(n) == [dns_name |-> HostOf(n), port |-> 11908 + n, addr |-> << <<"ip">> \o Itoa(n) >>]
PasswordOf(n) == <<"pw">> \o Itoa(n)

BdbObjects(n, guid) ==
    { [uid |-> n, crdt_guid |-> guid, authentication_redis_pass |-> PasswordOf(n),
       status |-> s, endpoints |-> e] :
         s \in {"pending", "active"}, e \in {<<>>, <<EndpointOf(n)>>} }

\* POST /v1/bdbs
PostBdbsAnswers(cluster) ==
    {TransportError} \cup Rejections
      \cup { Answer(200, "object", [uid |-> Len(cluster) + 1, status |-> "pending"]),
             Answer(200, "garbage", <<>>) }

\* POST /v1/crdbs
PostCrdbsAnswers(cluster) ==
    {TransportError} \cup Rejections
      \cup { Answer(200, "object", [id |-> TaskOf(Len(cluster) + 1),
                                    crdb_guid |-> GuidOf(Len(cluster) + 1),
                                    status |-> "queued"]),
             Answer(200, "garbage", <<>>) }

\* GET /v1/bdbs/{UID}
GetBdbAnswers(cluster, UID) ==
    {TransportError, Answer(200, "garbage", <<>>)}
      \cup (IF \E n \in 1..Len(cluster) : Itoa(n) = UID
            THEN LET n == CHOOSE n \in 1..Len(cluster) : Itoa(n) = UID
                 IN  { Answer(200, "object", o) : o \in BdbObjects(n, cluster[n]) }
            ELSE { Answer(404, "object", [description |-> "bdb not exist",
                                          error_code |-> "bdb_not_exist"]) })

\* GET /v1/crdb_tasks/{ID}
GetTaskAnswers(ID, guid) ==
    {TransportError, Answer(200, "garbage", <<>>)}
      \cup { Answer(200, "object", [id |-> ID, crdb_guid |-> guid, status |-> s]) :
               s \in {"queued", "finished", "failed"} }

\* GET /v1/bdbs, as far as the lookup of GUID can tell the answers apart: the
\* databases with that GUID in every status, the others in one.
GetBdbsAnswers(cluster, GUID) ==
    LET objects == UNION { IF cluster[n] = GUID
                           THEN BdbObjects(n, cluster[n])
                           ELSE { [uid |-> n, crdt_guid |-> cluster[n],
                                   authentication_redis_pass |-> PasswordOf(n),
                                   status |-> "active",
                                   endpoints |-> <<EndpointOf(n)>>] } :
                           n \in 1..Len(cluster) }
        lists == UNION { [1..k -> objects] : k \in 0..MaxListLen }
    IN  {TransportError, Answer(200, "garbage", <<>>)}
          \cup { Answer(200, "array", l) : l \in lists }

\* PUT /v1/bdbs/{UID}, DELETE /v1/bdbs/{UID}
PlainAnswers == {TransportError, Answer(200, "object", <<>>)} \cup Rejections

\* DELETE /v1/crdbs/{GUID}
DeleteCrdbAnswers(GUID) ==
    {TransportError, Answer(200, "garbage", <<>>),
     Answer(200, "object", [id |-> <<"t", "d">>, crdb_guid |-> GUID, status |-> "queued"])}
      \cup Rejections

\* The cluster creates a database when it answers a create POST with 200.
Created(cluster, res, guid) ==
    IF res.transport = Nil /\ res.StatusCode = 200 /\ res.kind = "object"
    THEN Append(cluster, guid) ELSE cluster


(***************************************************************************)
(* apiclient: decoding of answers.                                         *)
(***************************************************************************)
statusResponse(obj) ==
    [UID |-> Field(obj, "uid", 0),
     CRDBGUID |-> Field(obj, "crdt_guid", <<>>),
     Password |-> Field(obj, "authentication_redis_pass", <<>>),
     Endpoints |-> Field(obj, "endpoints", <<>>),
     Status |-> Field(obj, "status", "")]

parseStatusResponse(res) ==
    IF res.kind = "object"
    THEN [payload |-> statusResponse(res.obj), err |-> Nil]
    ELSE [payload |-> statusResponse(<<>>), err |-> ErrDecode]

\* fmt.Errorf(format) called without operands: text is copied as it is and a
\* formatting verb, finding no operand, is written as %!verb(MISSING).  Of the
\* descriptions of the model one holds a verb, the "% r" of "90% reached".
Errorf(format) ==
    IF format = "memory limit 90% reached"
    THEN "memory limit 90%!r(MISSING)eached"
    ELSE format

parseErrorResponse(res) ==
    IF res.kind = "object"
    THEN [payload |-> [ErrorMessage |-> Field(res.obj, "description", ""),
                       ErrorCode |-> Field(res.obj, "error_code", "")],
          err |-> Nil]
    ELSE [payload |-> [ErrorMessage |-> "", ErrorCode |-> ""], err |-> ErrUnknownServer]

parseCRDBErrorResponse(res) ==
    IF res.kind = "object"
    THEN [payload |-> [ClusterName |-> Field(res.obj, "cluster_name", ""),
                       ErrorCode |-> Field(res.obj, "error_code", ""),
                       Description |-> Field(res.obj, "description", "")],
          err |-> Nil]
    ELSE [payload |-> [ClusterName |-> "", ErrorCode |-> "", Description |-> ""],
          err |-> ErrUnknownServer]

crdbTaskStatus(obj) ==
    [ID |-> Field(obj, "id", <<>>),
     CRDBGUID |-> Field(obj, "crdb_guid", <<>>),
     Status |-> Field(obj, "status", "")]

parseTaskStatusResponse(res) ==
    IF res.kind = "object"
    THEN [payload |-> crdbTaskStatus(res.obj), err |-> Nil]
    ELSE [payload |-> crdbTaskStatus(<<>>), err |-> ErrDecode]

(***************************************************************************)
(* apiclient: the requests, each as a function of the cluster's answer.    *)
(***************************************************************************)
\* A GetDatabase that looks for the endpoint before it looks at the status.
GetDatabaseEndpointsFirst(res) ==
    IF res.transport # Nil THEN [creds |-> ZeroCredentials, err |-> ErrQueryAPI]
    ELSE LET p == parseStatusResponse(res) IN
         IF p.err # Nil THEN [creds |-> ZeroCredentials, err |-> ErrParseResponse]
         ELSE IF Len(p.payload.Endpoints) < 1
              THEN [creds |-> ZeroCredentials, err |-> ErrNoEndpoints]
         ELSE IF p.payload.Status # "active"
              THEN [creds |-> ZeroCredentials, err |-> errDbIsNotActive]
         ELSE [creds |-> [UID |-> Itoa(p.payload.UID),
                          Host |-> p.payload.Endpoints[1].dns_name,
                          Port |-> p.payload.Endpoints[1].port,
                          IPList |-> p.payload.Endpoints[1].addr,
                          Password |-> p.payload.Password],
               err |-> Nil]

\* GetDatabase(UID), given the answer to GET /v1/bdbs/{UID}
GetDatabase(res) ==
    IF res.transport # Nil THEN [creds |-> ZeroCredentials, err |-> ErrQueryAPI]
    ELSE LET p == parseStatusResponse(res) IN
         IF p.err # Nil THEN [creds |-> ZeroCredentials, err |-> ErrParseResponse]
         ELSE IF p.payload.Status # "active"
              THEN [creds |-> ZeroCredentials, err |-> errDbIsNotActive]
         ELSE IF Len(p.payload.Endpoints) < 1
              THEN [creds |-> ZeroCredentials, err |-> ErrNoEndpoints]
         ELSE [creds |-> [UID |-> Itoa(p.payload.UID),
                          Host |-> p.payload.Endpoints[1].dns_name,
                          Port |-> p.payload.Endpoints[1].port,
                          IPList |-> p.payload.Endpoints[1].addr,
                          Password |-> p.payload.Password],
               err |-> Nil]

\* The scan of GetCRDBSettings over the decoded list, from entry i on.
RECURSIVE FindCRDB(_, _, _)
FindCRDB(payload, GUID, i) ==
    IF i > Len(payload) THEN [creds |-> ZeroCredentials, err |-> ErrDBNotFound]
    ELSE LET db == statusResponse(payload[i]) IN
         IF db.CRDBGUID = GUID
         THEN IF db.Status # "active"
              THEN [creds |-> ZeroCredentials, err |-> errDbIsNotActive]
              ELSE IF Len(db.Endpoints) < 1
                   THEN [creds |-> ZeroCredentials, err |-> ErrNoEndpoints]
              ELSE [creds |-> [UID |-> GUID,
                               Host |-> db.Endpoints[1].dns_name,
                               Port |-> db.Endpoints[1].port,
                               IPList |-> db.Endpoints[1].addr,
                               Password |-> db.Password],
                    err |-> Nil]
         ELSE FindCRDB(payload, GUID, i + 1)

\* GetCRDBSettings(GUID), given the answer to GET /v1/bdbs
GetCRDBSettings(GUID, res) ==
    IF res.transport # Nil THEN [creds |-> ZeroCredentials, err |-> ErrQueryAPI]
    ELSE IF res.kind # "array" THEN [creds |-> ZeroCredentials, err |-> ErrDecode]
    ELSE FindCRDB(res.obj, GUID, 1)

\* GetCRDBTaskStatus(ID), given the answer to GET /v1/crdb_tasks/{ID}
GetCRDBTaskStatus(res) ==
    IF res.transport # Nil THEN [status |-> crdbTaskStatus(<<>>), err |-> ErrQueryAPI]
    ELSE LET p == parseTaskStatusResponse(res) IN
         IF p.err # Nil THEN [status |-> crdbTaskStatus(<<>>), err |-> ErrParseResponse]
         ELSE [status |-> p.payload, err |-> Nil]

\* The synchronous part of CreateDatabase (plain flow), given the answer to
\* POST /v1/bdbs: the uid the poller will ask for, or the error returned.
CreateDatabase(res) ==
    IF res.transport # Nil THEN [dbUid |-> <<>>, err |-> res.transport]
    ELSE IF res.StatusCode # 200
         THEN LET p == parseErrorResponse(res) IN
              IF p.err # Nil THEN [dbUid |-> <<>>, err |-> p.err]
              ELSE [dbUid |-> <<>>, err |-> Errorf(p.payload.ErrorMessage)]
    ELSE LET p == parseStatusResponse(res) IN
         IF p.err # Nil THEN [dbUid |-> <<>>, err |-> p.err]
         ELSE [dbUid |-> Itoa(p.payload.UID), err |-> Nil]

\* The synchronous part of CreateCRDB, given the answer to POST /v1/crdbs.
CreateCRDB(res) ==
    IF res.transport # Nil THEN [crdbGUID |-> <<>>, taskID |-> <<>>, err |-> res.transport]
    ELSE IF res.StatusCode # 200
         THEN LET p == parseCRDBErrorResponse(res) IN
              IF p.err # Nil THEN [crdbGUID |-> <<>>, taskID |-> <<>>, err |-> p.err]
              ELSE [crdbGUID |-> <<>>, taskID |-> <<>>, err |-> Errorf(p.payload.Description)]
    ELSE LET p == parseTaskStatusResponse(res) IN
         IF p.err # Nil THEN [crdbGUID |-> <<>>, taskID |-> <<>>, err |-> p.err]
         ELSE [crdbGUID |-> p.payload.CRDBGUID, taskID |-> p.payload.ID, err |-> Nil]

\* An UpdateDatabase that, as GetDatabase does, does not look at the status code.
UpdateDatabaseAnyStatus(res) ==
    IF res.transport # Nil THEN res.transport ELSE Nil

\* UpdateDatabase(UID, params), given the answer to PUT /v1/bdbs/{UID}
UpdateDatabase(res) ==
    IF res.transport # Nil THEN res.transport
    ELSE IF res.StatusCode # 200
         THEN LET p == parseErrorResponse(res) IN
              IF p.err # Nil THEN p.err ELSE Errorf(p.payload.ErrorMessage)
    ELSE Nil

\* DeleteCRDB(GUID), given the answer to DELETE /v1/crdbs/{GUID}
DeleteCRDB(res) ==
    IF res.transport # Nil THEN res.transport
    ELSE IF res.StatusCode # 200
         THEN LET p == parseCRDBErrorResponse(res) IN
              IF p.err # Nil THEN p.err ELSE Errorf(p.payload.Description)
    ELSE parseTaskStatusResponse(res).err

\* A DeleteDatabase that takes every answer for an acceptance.
DeleteDatabaseAnyAnswer(res) == Nil

\* DeleteDatabase(UID) on the /v1/bdbs path, given the answer to the DELETE
DeleteDatabase(res) ==
    IF res.transport # Nil THEN res.transport
    ELSE IF res.StatusCode # 200
         THEN LET p == parseErrorResponse(res) IN
              IF p.err # Nil THEN p.err ELSE Errorf(p.payload.ErrorMessage)
    ELSE Nil


(***************************************************************************)
(* State.                                                                  *)
(***************************************************************************)
VARIABLES
    persisted,  \* the state file: State.AvailableInstances
    cluster,    \* the cluster's databases: cluster[n] is the CRDB GUID of database n
    calls,      \* platform requests started so far
    pc,         \* where each request task is
    req,        \* the request a task is serving (or served last)
    state,      \* the State a task loaded
    inst,       \* the record of the request's instance in the state file when the
                \* request arrived (NoInstance when there was none)
    poller,     \* the readiness poller of a task's CreateDatabase and its channel
    trace,      \* what the task's current request sent to the cluster and saved
    result,     \* what the task's last request returned
    call        \* a single call of the client or of the parameter translator:
                \* its arguments, the cluster's answer and what it returned

vars == <<persisted, cluster, calls, pc, req, state, inst, poller, trace, result, call>>

NoRequest == [op |-> "", instanceID |-> "", bindingID |-> "", ServiceID |-> "",
              PlanID |-> "", type |-> ""]
NoInstance == ServiceInstance("", "", ZeroCredentials)
NoPoller == [at |-> "none", dbUid |-> <<>>, taskID |-> <<>>, creds |-> ZeroCredentials]
NoResult == [err |-> Nil, val |-> Nil]
NoCall == [op |-> ""]

ProvisionDetails ==
    { [ServiceID |-> ServiceID, PlanID |-> "test-plan-1", type |-> ""],
      [ServiceID |-> ServiceID, PlanID |-> "test-plan-1", type |-> "crdb"],
      [ServiceID |-> ServiceID, PlanID |-> "test-plan-3", type |-> ""],
      [ServiceID |-> "unknown", PlanID |-> "test-plan-1", type |-> ""],
      [ServiceID |-> "unknown", PlanID |-> "test-plan-3", type |-> ""] }
UpdateDetails ==
    { [ServiceID |-> ServiceID, PlanID |-> ""],
      [ServiceID |-> ServiceID, PlanID |-> "test-plan-2"],
      [ServiceID |-> ServiceID, PlanID |-> "test-plan-3"],
      [ServiceID |-> "unknown", PlanID |-> "test-plan-3"] }
BindDetails ==
    { [ServiceID |-> ServiceID, PlanID |-> "test-plan-1"],
      [ServiceID |-> "unknown", PlanID |-> "test-plan-3"] }

\* A record written by a broker that did not store the host yet.
LegacyInstance ==
    ServiceInstance("test-instance", "test-plan-1",
        [UID |-> Itoa(1), Host |-> <<>>, Port |-> EndpointOf(1).port,
         IPList |-> EndpointOf(1).addr, Password |-> PasswordOf(1)])

Init ==
    /\ \/ persisted = <<>> /\ cluster = <<>>
       \/ persisted = <<LegacyInstance>> /\ cluster = << <<>> >>
    /\ calls = 0
    /\ pc = [p \in Procs |-> "idle"]
    /\ req = [p \in Procs |-> NoRequest]
    /\ state = [p \in Procs |-> <<>>]
    /\ inst = [p \in Procs |-> NoInstance]
    /\ poller = [p \in Procs |-> NoPoller]
    /\ trace = [p \in Procs |-> <<>>]
    /\ result = [p \in Procs |-> NoResult]
    /\ call = NoCall

(***************************************************************************)
(* Helpers of the actions.                                                 *)
(***************************************************************************)
Event(request, answer) == [req |-> request, res |-> answer]

RECURSIVE FindInstance(_, _, _)
FindInstance(s, instanceID, i) ==
    IF i > Len(s) THEN 0
    ELSE IF s[i].ID = instanceID THEN i
    ELSE FindInstance(s, instanceID, i + 1)

InstanceExists(s, instanceID) == FindInstance(s, instanceID, 1) # 0

RemoveInstance(s, instanceID) ==
    LET i == FindInstance(s, instanceID, 1)
    IN  IF i = 0 THEN s ELSE SubSeq(s, 1, i - 1) \o SubSeq(s, i + 1, Len(s))

Found(s, instanceID) ==
    IF InstanceExists(s, instanceID) THEN s[FindInstance(s, instanceID, 1)] ELSE NoInstance

Count(s, instanceID) == Cardinality({i \in 1..Len(s) : s[i].ID = instanceID})

Polls(p) == Cardinality({i \in 1..Len(trace[p]) :
                trace[p][i].req \in {"GET /v1/bdbs/{uid}", "GET /v1/crdb_tasks/{id}"}})

\* A task takes the next platform request.
Start(p, r) ==
    /\ pc[p] \in {"idle", "done"}
    /\ calls < MaxCalls
    /\ calls' = calls + 1
    /\ req' = [req EXCEPT ![p] = r]

\* A request returns.
Return(p, err, val) ==
    /\ pc' = [pc EXCEPT ![p] = "done"]
    /\ result' = [result EXCEPT ![p] = [err |-> err, val |-> val]]
    /\ state' = [state EXCEPT ![p] = <<>>]

Summary(res) ==
    IF res.transport = Nil /\ res.StatusCode = 200 THEN "200" ELSE "not 200"


\* What a status answer reports: the status field, when there is one.
StatusSeen(res) ==
    IF res.transport = Nil /\ res.kind = "object"
       /\ statusResponse(res.obj).Status = "active"
    THEN "active" ELSE "not active"

\* What the poller's GetDatabase finds in a status answer: an active database
\* with an endpoint, an active database without one, or no active database.
DatabaseSeen(res) ==
    IF StatusSeen(res) # "active" THEN "not active"
    ELSE IF Len(statusResponse(res.obj).Endpoints) < 1 THEN "no endpoints"
    ELSE "active"

\* What a GET /v1/bdbs answer reports of the database with the given GUID.
ListStatusSeen(GUID, res) ==
    IF res.transport = Nil /\ res.kind = "array"
       /\ \E i \in 1..Len(res.obj) :
             /\ statusResponse(res.obj[i]).CRDBGUID = GUID
             /\ statusResponse(res.obj[i]).Status = "active"
    THEN "active" ELSE "not active"

Log(p, events) == trace' = [trace EXCEPT ![p] = trace[p] \o events]

(***************************************************************************)
(* Provision.                                                              *)
(***************************************************************************)
\* A check that does not look for the instance in the state.
ProvisionCheckNoLookup(s, instanceID, details) ==
    IF details.ServiceID # ServiceID THEN ErrServiceDoesNotExist
    ELSE IF details.PlanID \notin PlanIDs THEN ErrPlanDoesNotExist
    ELSE Nil

\* A check that looks for the instance first.
ProvisionCheckLookupFirst(s, instanceID, details) ==
    IF InstanceExists(s, instanceID) THEN ErrInstanceAlreadyExists
    ELSE IF details.ServiceID # ServiceID THEN ErrServiceDoesNotExist
    ELSE IF details.PlanID \notin PlanIDs THEN ErrPlanDoesNotExist
    ELSE Nil

\* Steps 1 to 3 of Provision.
ProvisionCheck(s, instanceID, details) ==
    IF details.ServiceID # ServiceID THEN ErrServiceDoesNotExist
    ELSE IF details.PlanID \notin PlanIDs THEN ErrPlanDoesNotExist
    ELSE IF InstanceExists(s, instanceID) THEN ErrInstanceAlreadyExists
    ELSE Nil

Provision(p, instanceID, details) ==
    /\ Start(p, [op |-> "Provision", instanceID |-> instanceID, bindingID |-> "",
                 ServiceID |-> details.ServiceID, PlanID |-> details.PlanID,
                 type |-> details.type])
    /\ trace' = [trace EXCEPT ![p] = <<>>]
    /\ poller' = [poller EXCEPT ![p] = NoPoller]
    /\ inst' = [inst EXCEPT ![p] = Found(persisted, instanceID)]
    /\ LET err == ProvisionCheck(persisted, instanceID, details) IN
       IF err # Nil
       THEN Return(p, err, Nil)
       ELSE /\ pc' = [pc EXCEPT ![p] = "create"]
            /\ result' = [result EXCEPT ![p] = NoResult]
            /\ state' = [state EXCEPT ![p] = persisted]
    /\ UNCHANGED <<persisted, cluster, call>>

\* A CreateDatabase that starts its poller before it looks at the answer.
ProvisionCreatePollsAnyway(p) ==
    /\ pc[p] = "create"
    /\ req[p].type # "crdb"
    /\ \E res \in PostBdbsAnswers(cluster) :
         LET c == CreateDatabase(res) IN
         /\ Log(p, <<Event("POST /v1/bdbs", Summary(res))>>)
         /\ cluster' = Created(cluster, res, <<>>)
         /\ poller' = [poller EXCEPT ![p] =
                [at |-> "poll", dbUid |-> c.dbUid, taskID |-> <<>>,
                 creds |-> ZeroCredentials]]
         /\ IF c.err # Nil
            THEN Return(p, c.err, Nil)
            ELSE /\ pc' = [pc EXCEPT ![p] = "wait"]
                 /\ UNCHANGED <<result, state>>
    /\ UNCHANGED <<persisted, calls, req, inst, call>>

\* CreateDatabase, plain flow: the POST and the start of the poller.
ProvisionCreate(p) ==
    /\ pc[p] = "create"
    /\ req[p].type # "crdb"
    /\ \E res \in PostBdbsAnswers(cluster) :
         LET c == CreateDatabase(res) IN
         /\ Log(p, <<Event("POST /v1/bdbs", Summary(res))>>)
         /\ cluster' = Created(cluster, res, <<>>)
         /\ IF c.err # Nil
            THEN Return(p, c.err, Nil) /\ UNCHANGED poller
            ELSE /\ pc' = [pc EXCEPT ![p] = "wait"]
                 /\ poller' = [poller EXCEPT ![p] =
                        [at |-> "poll", dbUid |-> c.dbUid, taskID |-> <<>>,
                         creds |-> ZeroCredentials]]
                 /\ UNCHANGED <<result, state>>
    /\ UNCHANGED <<persisted, calls, req, inst, call>>

\* CreateDatabase with type "crdb": CreateCRDB's POST and the start of its poller.
ProvisionCreateCRDB(p) ==
    /\ pc[p] = "create"
    /\ req[p].type = "crdb"
    /\ \E res \in PostCrdbsAnswers(cluster) :
         LET c == CreateCRDB(res) IN
         /\ Log(p, <<Event("POST /v1/crdbs", Summary(res))>>)
         /\ cluster' = Created(cluster, res, GuidOf(Len(cluster) + 1))
         /\ IF c.err # Nil
            THEN Return(p, c.err, Nil) /\ UNCHANGED poller
            ELSE /\ pc' = [pc EXCEPT ![p] = "wait"]
                 /\ poller' = [poller EXCEPT ![p] =
                        [at |-> "poll", dbUid |-> c.crdbGUID, taskID |-> c.taskID,
                         creds |-> ZeroCredentials]]
                 /\ UNCHANGED <<result, state>>
    /\ UNCHANGED <<persisted, calls, req, inst, call>>

\* A poller that gives up sending when its first round fails.
PollGivesUp(p) ==
    /\ poller[p].at = "poll"
    /\ req[p].type # "crdb"
    /\ Polls(p) < MaxPolls
    /\ \E res \in GetBdbAnswers(cluster, poller[p].dbUid) :
         LET g == GetDatabase(res) IN
         /\ Log(p, <<Event("GET /v1/bdbs/{uid}", DatabaseSeen(res))>>)
         /\ poller' = [poller EXCEPT ![p] =
                IF g.err # Nil THEN [@ EXCEPT !.at = "exit"]
                ELSE [@ EXCEPT !.at = "send", !.creds = g.creds]]
    /\ UNCHANGED <<persisted, cluster, calls, pc, req, state, inst, result, call>>

\* One round of the plain poller: GetDatabase(dbUid), then send or go round again.
Poll(p) ==
    /\ poller[p].at = "poll"
    /\ req[p].type # "crdb"
    /\ Polls(p) < MaxPolls
    /\ \E res \in GetBdbAnswers(cluster, poller[p].dbUid) :
         LET g == GetDatabase(res) IN
         /\ Log(p, <<Event("GET /v1/bdbs/{uid}", DatabaseSeen(res))>>)
         /\ poller' = [poller EXCEPT ![p] =
                IF g.err # Nil THEN @
                ELSE [@ EXCEPT !.at = "send", !.creds = g.creds]]
    /\ UNCHANGED <<persisted, cluster, calls, pc, req, state, inst, result, call>>

\* What a round of the CRDB poller finds of its task: finished, failed, or
\* neither (another status, or no status at all).
TaskSeen(t) ==
    IF t.err # Nil THEN "not finished"
    ELSE IF t.status.Status \in {"finished", "failed"} THEN t.status.Status
    ELSE "not finished"

\* A CRDB poller that gives up on a failed task and sends the zero credentials.
PollCRDBGivesUp(p) ==
    /\ poller[p].at = "poll"
    /\ req[p].type = "crdb"
    /\ Polls(p) < MaxPolls
    /\ \E tres \in GetTaskAnswers(poller[p].taskID, poller[p].dbUid) :
         LET t == GetCRDBTaskStatus(tres)
             ev == Event("GET /v1/crdb_tasks/{id}", TaskSeen(t))
         IN  IF t.err # Nil \/ t.status.Status \notin {"finished", "failed"}
             THEN Log(p, <<ev>>) /\ UNCHANGED poller
             ELSE IF t.status.Status = "failed"
             THEN /\ Log(p, <<ev>>)
                  /\ poller' = [poller EXCEPT ![p] =
                         [@ EXCEPT !.at = "send", !.creds = ZeroCredentials]]
             ELSE \E lres \in GetBdbsAnswers(cluster, poller[p].dbUid) :
                    /\ Log(p, <<ev, Event("GET /v1/bdbs",
                                          ListStatusSeen(poller[p].dbUid, lres))>>)
                    /\ poller' = [poller EXCEPT ![p] =
                           [@ EXCEPT !.at = "send",
                                     !.creds = GetCRDBSettings(poller[p].dbUid, lres).creds]]
    /\ UNCHANGED <<persisted, cluster, calls, pc, req, state, inst, result, call>>

\* One round of the CRDB poller: GetCRDBTaskStatus(taskID) and, once the task is
\* finished, GetCRDBSettings(crdbGUID), whose error is dropped.
PollCRDB(p) ==
    /\ poller[p].at = "poll"
    /\ req[p].type = "crdb"
    /\ Polls(p) < MaxPolls
    /\ \E tres \in GetTaskAnswers(poller[p].taskID, poller[p].dbUid) :
         LET t == GetCRDBTaskStatus(tres)
             ev == Event("GET /v1/crdb_tasks/{id}", TaskSeen(t))
         IN  IF t.err # Nil \/ t.status.Status # "finished"
             THEN Log(p, <<ev>>) /\ UNCHANGED poller
             ELSE \E lres \in GetBdbsAnswers(cluster, poller[p].dbUid) :
                    /\ Log(p, <<ev, Event("GET /v1/bdbs",
                                          ListStatusSeen(poller[p].dbUid, lres))>>)
                    /\ poller' = [poller EXCEPT ![p] =
                           [@ EXCEPT !.at = "send",
                                     !.creds = GetCRDBSettings(poller[p].dbUid, lres).creds]]
    /\ UNCHANGED <<persisted, cluster, calls, pc, req, state, inst, result, call>>

\* Provision receives the credentials, appends the record to the state it
\* loaded and saves it.
ProvisionSave(p) ==
    /\ pc[p] = "wait"
    /\ poller[p].at = "send"
    /\ poller' = [poller EXCEPT ![p] = [@ EXCEPT !.at = "exit"]]
    /\ \/ /\ persisted' = Append(state[p],
                ServiceInstance(req[p].instanceID, req[p].PlanID, poller[p].creds))
          /\ Log(p, <<Event("Save", "ok")>>)
          /\ Return(p, Nil, Nil)
       \/ /\ UNCHANGED persisted
          /\ Log(p, <<Event("Save", "failed")>>)
          /\ Return(p, ErrPersistence, Nil)
    /\ UNCHANGED <<cluster, calls, req, inst, call>>


(***************************************************************************)
(* Bind and Unbind (instancebinders).                                      *)
(***************************************************************************)
\* A getHost that answers with the text of GetDatabase's error.
getHostOrError(host, res) ==
    IF Len(host) # 0 THEN host
    ELSE LET g == GetDatabase(res) IN
         IF g.err # Nil THEN <<g.err>> ELSE g.creds.Host

\* A getHost that asks the cluster whatever the record holds.
getHostFromCluster(host, res) ==
    LET g == GetDatabase(res) IN
    IF g.err # Nil THEN <<>> ELSE g.creds.Host

\* getHost(UID, host), given the answer GetDatabase(UID) gets when it asks
getHost(host, res) ==
    IF Len(host) # 0 THEN host
    ELSE LET g == GetDatabase(res) IN
         IF g.err # Nil THEN <<>> ELSE g.creds.Host

Binding(creds, host) ==
    [host |-> host, port |-> creds.Port, ip_list |-> creds.IPList,
     password |-> creds.Password]

\* A Bind that asks the cluster for the database before it looks at the record.
BindAsksClusterFirst(p, instanceID, bindingID, details) ==
    /\ Start(p, [op |-> "Bind", instanceID |-> instanceID, bindingID |-> bindingID,
                 ServiceID |-> details.ServiceID, PlanID |-> details.PlanID,
                 type |-> ""])
    /\ poller' = [poller EXCEPT ![p] = NoPoller]
    /\ inst' = [inst EXCEPT ![p] = Found(persisted, instanceID)]
    /\ LET i == FindInstance(persisted, instanceID, 1) IN
       IF i = 0
       THEN /\ trace' = [trace EXCEPT ![p] =
                            <<Event("GET /v1/bdbs/{uid}", "not active")>>]
            /\ Return(p, ErrInstanceDoesNotExist, Nil)
       ELSE /\ trace' = [trace EXCEPT ![p] = <<>>]
            /\ IF Len(persisted[i].Credentials.Host) # 0
               THEN Return(p, Nil, Binding(persisted[i].Credentials,
                                           getHost(persisted[i].Credentials.Host,
                                                   TransportError)))
               ELSE /\ pc' = [pc EXCEPT ![p] = "gethost"]
                    /\ result' = [result EXCEPT ![p] = NoResult]
                    /\ UNCHANGED state
    /\ UNCHANGED <<persisted, cluster, call>>

\* Bind up to the return or, for a record without host, up to the GetDatabase.
Bind(p, instanceID, bindingID, details) ==
    /\ Start(p, [op |-> "Bind", instanceID |-> instanceID, bindingID |-> bindingID,
                 ServiceID |-> details.ServiceID, PlanID |-> details.PlanID,
                 type |-> ""])
    /\ trace' = [trace EXCEPT ![p] = <<>>]
    /\ poller' = [poller EXCEPT ![p] = NoPoller]
    /\ inst' = [inst EXCEPT ![p] = Found(persisted, instanceID)]
    /\ LET i == FindInstance(persisted, instanceID, 1) IN
       IF i = 0
       THEN Return(p, ErrInstanceDoesNotExist, Nil)
       ELSE IF Len(persisted[i].Credentials.Host) # 0
            THEN Return(p, Nil, Binding(persisted[i].Credentials,
                                        getHost(persisted[i].Credentials.Host,
                                                TransportError)))
            ELSE /\ pc' = [pc EXCEPT ![p] = "gethost"]
                 /\ result' = [result EXCEPT ![p] = NoResult]
                 /\ UNCHANGED state
    /\ UNCHANGED <<persisted, cluster, call>>

\* A Bind that saves the host it got from the cluster in the record.
BindGetHostWritesBack(p) ==
    /\ pc[p] = "gethost"
    /\ \E res \in GetBdbAnswers(cluster, inst[p].Credentials.UID) :
         /\ Log(p, <<Event("GET /v1/bdbs/{uid}", DatabaseSeen(res))>>)
         /\ Return(p, Nil, Binding(inst[p].Credentials,
                                   getHost(inst[p].Credentials.Host, res)))
         /\ persisted' = [i \in 1..Len(persisted) |->
               IF persisted[i].ID = inst[p].ID
               THEN [persisted[i] EXCEPT !.Credentials.Host =
                        getHost(inst[p].Credentials.Host, res)]
               ELSE persisted[i]]
    /\ UNCHANGED <<cluster, calls, req, inst, poller, call>>

\* getHost's GetDatabase(UID) for a record without host, and Bind's return.
BindGetHost(p) ==
    /\ pc[p] = "gethost"
    /\ \E res \in GetBdbAnswers(cluster, inst[p].Credentials.UID) :
         /\ Log(p, <<Event("GET /v1/bdbs/{uid}", DatabaseSeen(res))>>)
         /\ Return(p, Nil, Binding(inst[p].Credentials,
                                   getHost(inst[p].Credentials.Host, res)))
    /\ UNCHANGED <<persisted, cluster, calls, req, inst, poller, call>>

\* An Unbind that forgets the instance.
UnbindForgetsInstance(p, instanceID, bindingID) ==
    /\ Start(p, [op |-> "Unbind", instanceID |-> instanceID, bindingID |-> bindingID,
                 ServiceID |-> "", PlanID |-> "", type |-> ""])
    /\ trace' = [trace EXCEPT ![p] = <<>>]
    /\ poller' = [poller EXCEPT ![p] = NoPoller]
    /\ inst' = [inst EXCEPT ![p] = NoInstance]
    /\ Return(p, Nil, Nil)
    /\ persisted' = RemoveInstance(persisted, instanceID)
    /\ UNCHANGED <<cluster, call>>

Unbind(p, instanceID, bindingID) ==
    /\ Start(p, [op |-> "Unbind", instanceID |-> instanceID, bindingID |-> bindingID,
                 ServiceID |-> "", PlanID |-> "", type |-> ""])
    /\ trace' = [trace EXCEPT ![p] = <<>>]
    /\ poller' = [poller EXCEPT ![p] = NoPoller]
    /\ inst' = [inst EXCEPT ![p] = NoInstance]
    /\ Return(p, Nil, Nil)
    /\ UNCHANGED <<persisted, cluster, call>>

(***************************************************************************)
(* Services: the catalog.                                                  *)
(***************************************************************************)
\* config.ServiceBroker: the service and its plans, in the order of the file
Config ==
    [ServiceID |-> ServiceID, Name |-> "redislabs test",
     Description |-> "redislabs description",
     Plans |-> <<[ID |-> "test-plan-1", Name |-> "test-1", Description |-> ""],
                 [ID |-> "test-plan-2", Name |-> "test-2", Description |-> ""]>>]

\* A catalog that lists the plans last first.
CatalogOfPlansReversed(config) ==
    <<[ID |-> config.ServiceID, Name |-> config.Name, Description |-> config.Description,
       Bindable |-> TRUE, PlanUpdatable |-> TRUE, Tags |-> <<"redislabs">>,
       Plans |-> [i \in 1..Len(config.Plans) |->
                    config.Plans[Len(config.Plans) + 1 - i]]]>>

\* The catalog Services() builds from the configuration.
CatalogOf(config) ==
    <<[ID |-> config.ServiceID, Name |-> config.Name, Description |-> config.Description,
       Bindable |-> TRUE, PlanUpdatable |-> TRUE, Tags |-> <<"redislabs">>,
       Plans |-> [i \in 1..Len(config.Plans) |->
                    [ID |-> config.Plans[i].ID, Name |-> config.Plans[i].Name,
                     Description |-> config.Plans[i].Description]]]>>

Services(p) ==
    /\ Start(p, [op |-> "Services", instanceID |-> "", bindingID |-> "",
                 ServiceID |-> "", PlanID |-> "", type |-> ""])
    /\ trace' = [trace EXCEPT ![p] = <<>>]
    /\ poller' = [poller EXCEPT ![p] = NoPoller]
    /\ inst' = [inst EXCEPT ![p] = NoInstance]
    /\ Return(p, Nil, CatalogOf(Config))
    /\ UNCHANGED <<persisted, cluster, call>>

(***************************************************************************)
(* Update.                                                                 *)
(***************************************************************************)
\* A check that validates the plan before it looks for the instance.
UpdateCheckPlanFirst(s, instanceID, details) ==
    IF details.ServiceID # ServiceID THEN ErrServiceDoesNotExist
    ELSE IF details.PlanID # "" /\ details.PlanID \notin PlanIDs THEN ErrPlanDoesNotExist
    ELSE IF ~InstanceExists(s, instanceID) THEN ErrInstanceDoesNotExist
    ELSE Nil

\* Steps 1 to 3 of Update.
UpdateCheck(s, instanceID, details) ==
    IF details.ServiceID # ServiceID THEN ErrServiceDoesNotExist
    ELSE IF ~InstanceExists(s, instanceID) THEN ErrInstanceDoesNotExist
    ELSE IF details.PlanID # "" /\ details.PlanID \notin PlanIDs THEN ErrPlanDoesNotExist
    ELSE Nil

Update(p, instanceID, details) ==
    /\ Start(p, [op |-> "Update", instanceID |-> instanceID, bindingID |-> "",
                 ServiceID |-> details.ServiceID, PlanID |-> details.PlanID,
                 type |-> ""])
    /\ trace' = [trace EXCEPT ![p] = <<>>]
    /\ poller' = [poller EXCEPT ![p] = NoPoller]
    /\ inst' = [inst EXCEPT ![p] = Found(persisted, instanceID)]
    /\ LET err == UpdateCheck(persisted, instanceID, details) IN
       IF err # Nil
       THEN Return(p, err, Nil)
       ELSE /\ pc' = [pc EXCEPT ![p] = "put"]
            /\ result' = [result EXCEPT ![p] = NoResult]
            /\ UNCHANGED state
    /\ UNCHANGED <<persisted, cluster, call>>

\* An Update that saves the state with the record of its instance rewritten.
UpdatePutRewritesRecord(p) ==
    /\ pc[p] = "put"
    /\ \E res \in PlainAnswers :
         /\ Log(p, <<Event("PUT /v1/bdbs/{uid}", Summary(res))>>)
         /\ Return(p, UpdateDatabase(res), Nil)
    /\ persisted' = [i \in 1..Len(persisted) |->
                       IF persisted[i].ID = req[p].instanceID
                       THEN ServiceInstance(persisted[i].ID, req[p].PlanID, ZeroCredentials)
                       ELSE persisted[i]]
    /\ UNCHANGED <<cluster, calls, req, inst, poller, call>>

\* UpdateDatabase(uid, settings) and Update's return.
UpdatePut(p) ==
    /\ pc[p] = "put"
    /\ \E res \in PlainAnswers :
         /\ Log(p, <<Event("PUT /v1/bdbs/{uid}", Summary(res))>>)
         /\ Return(p, UpdateDatabase(res), Nil)
    /\ UNCHANGED <<persisted, cluster, calls, req, inst, poller, call>>

(***************************************************************************)
(* Deprovision.                                                            *)
(***************************************************************************)
\* A check that lets every instance id through.
DeprovisionCheckNoLookup(s, instanceID) == Nil

\* Deprovision's lookup of the instance.
DeprovisionCheck(s, instanceID) ==
    IF ~InstanceExists(s, instanceID) THEN ErrInstanceDoesNotExist ELSE Nil

Deprovision(p, instanceID) ==
    /\ Start(p, [op |-> "Deprovision", instanceID |-> instanceID, bindingID |-> "",
                 ServiceID |-> "", PlanID |-> "", type |-> ""])
    /\ trace' = [trace EXCEPT ![p] = <<>>]
    /\ poller' = [poller EXCEPT ![p] = NoPoller]
    /\ inst' = [inst EXCEPT ![p] = Found(persisted, instanceID)]
    /\ LET err == DeprovisionCheck(persisted, instanceID) IN
       IF err # Nil
       THEN Return(p, err, Nil)
       ELSE /\ pc' = [pc EXCEPT ![p] = "delete"]
            /\ result' = [result EXCEPT ![p] = NoResult]
            /\ state' = [state EXCEPT ![p] = persisted]
    /\ UNCHANGED <<persisted, cluster, call>>

\* The request DeleteDatabase(UID) sends.
DeleteRequest(UID) ==
    IF isCRDBUID(UID) THEN "DELETE /v1/crdbs/{guid}" ELSE "DELETE /v1/bdbs/{uid}"

\* DeleteDatabase(uid) and, when it succeeds, the removal of the record from
\* the state Deprovision loaded and its Save.
DeprovisionDelete(p) ==
    /\ pc[p] = "delete"
    /\ LET UID == inst[p].Credentials.UID IN
       \E res \in (IF isCRDBUID(UID) THEN DeleteCrdbAnswers(UID) ELSE PlainAnswers) :
         LET err == IF isCRDBUID(UID) THEN DeleteCRDB(res) ELSE DeleteDatabase(res) IN
         IF err # Nil
         THEN /\ Log(p, <<Event(DeleteRequest(UID), Summary(res))>>)
              /\ Return(p, err, Nil)
              /\ UNCHANGED persisted
         ELSE \/ /\ persisted' = RemoveInstance(state[p], req[p].instanceID)
                 /\ Log(p, <<Event(DeleteRequest(UID), Summary(res)), Event("Save", "ok")>>)
                 /\ Return(p, Nil, Nil)
              \/ /\ UNCHANGED persisted
                 /\ Log(p, <<Event(DeleteRequest(UID), Summary(res)),
                             Event("Save", "failed")>>)
                 /\ Return(p, ErrPersistence, Nil)
    /\ UNCHANGED <<cluster, calls, req, inst, poller, call>>

(***************************************************************************)
(* The specification.                                                      *)
(***************************************************************************)
Next ==
    \E p \in Procs :
        \/ \E id \in InstanceIDs, d \in ProvisionDetails : Provision(p, id, d)
        \/ ProvisionCreate(p)
        \/ ProvisionCreateCRDB(p)
        \/ Poll(p)
        \/ PollCRDB(p)
        \/ ProvisionSave(p)
        \/ \E id \in InstanceIDs, b \in BindingIDs, d \in BindDetails : Bind(p, id, b, d)
        \/ BindGetHost(p)
        \/ \E id \in InstanceIDs, b \in BindingIDs : Unbind(p, id, b)
        \/ Services(p)
        \/ \E id \in InstanceIDs, d \in UpdateDetails : Update(p, id, d)
        \/ UpdatePut(p)
        \/ \E id \in InstanceIDs : Deprovision(p, id)
        \/ DeprovisionDelete(p)

Spec == Init /\ [][Next]_vars

\* The scheduling the runtime gives: a poller that can go another round does,
\* and a Provision whose channel holds a value receives it.
Fairness ==
    \A p \in Procs :
      /\ WF_vars(Poll(p))
      /\ WF_vars(PollCRDB(p))
      /\ WF_vars(ProvisionSave(p))

LiveSpec == Init /\ [][Next]_vars /\ Fairness


(***************************************************************************)
(* The parameter translator: a plan's InstanceConfig and the user's         *)
(* parameters give the settings CreateDatabase and UpdateDatabase send.     *)
(***************************************************************************)
InstanceConfig(memory, replication, shards, persistence, writes, secs) ==
    [memory_limit |-> memory, replication |-> replication, shard_count |-> shards,
     persistence |-> persistence, snapshot |-> [writes |-> writes, secs |-> secs]]

\* config.ServiceBroker.Plans[i].ServiceInstanceConfig of the plans of PlanIDs
PlanConfig(planID) ==
    IF planID = "test-plan-1"
    THEN InstanceConfig(200000000, FALSE, 1, "", 0, 0)
    ELSE InstanceConfig(700000000, TRUE, 2, "snapshot", 100, 10)

\* The plans a broker is configured with.
InstanceConfigs ==
    { PlanConfig(planID) : planID \in PlanIDs }
      \cup { InstanceConfig(1024, TRUE, 0, "disabled", 0, 0),
             InstanceConfig(2048, FALSE, 2, "", 0, 0),
             InstanceConfig(0, FALSE, 0, "snapshot", 10, 12) }

\* A number a user gives as a number or as a numeric string.
Number(n) == [number |-> n]
NumericString(n) == [string |-> Itoa(n)]

RECURSIVE Atoi(_)
Atoi(str) ==
    IF Len(str) = 0 THEN 0
    ELSE 10 * Atoi(SubSeq(str, 1, Len(str) - 1))
           + (CHOOSE d \in 0..9 : Digits[d + 1] = str[Len(str)])

\* The JSON objects users pass as parameters.
UserParameters ==
    { <<>>,
      [name |-> "mydb"],
      [memory_size |-> Number(400000000)],
      [memory_size |-> NumericString(1024)],
      [memory_size |-> Number(300000000), data_persistence |-> "aof"],
      [replication |-> TRUE],
      [sharding |-> FALSE],
      [shards_count |-> 3],
      [snapshot_policy |-> <<[writes |-> 1, secs |-> 60], [writes |-> 5, secs |-> 5]>>] }

ShardKeyRegex == <<[regex |-> ".*\\{(?<tag>.*)\\}.*"], [regex |-> "(?<tag>.*)"]>>

\* g laid over f, key by key
Overlay(f, g) ==
    [k \in DOMAIN f \cup DOMAIN g |-> IF k \in DOMAIN g THEN g[k] ELSE f[k]]

\* Settings of a plan without the expansion of its snapshot.
PlanSettingsNoPolicy(config) ==
    Overlay([memory_size |-> config.memory_limit,
             replication |-> config.replication,
             data_persistence |-> config.persistence],
            IF config.shard_count > 1
            THEN [shards_count |-> config.shard_count, sharding |-> TRUE,
                  implicit_shard_key |-> TRUE, shard_key_regex |-> ShardKeyRegex]
            ELSE [sharding |-> FALSE, implicit_shard_key |-> FALSE])

\* The settings a plan stands for.
PlanSettings(config) ==
    Overlay(
      Overlay([memory_size |-> config.memory_limit,
               replication |-> config.replication,
               data_persistence |-> config.persistence],
              IF config.shard_count > 1
              THEN [shards_count |-> config.shard_count, sharding |-> TRUE,
                    implicit_shard_key |-> TRUE, shard_key_regex |-> ShardKeyRegex]
              ELSE [sharding |-> FALSE, implicit_shard_key |-> FALSE]),
      IF config.persistence = "snapshot"
      THEN [snapshot_policy |-> <<config.snapshot>>]
      ELSE <<>>)

\* The user's parameters as settings: memory_size becomes a number.
UserSettings(parameters) ==
    [k \in DOMAIN parameters |->
       IF k = "memory_size"
       THEN IF "string" \in DOMAIN parameters[k]
            THEN Atoi(parameters[k].string) ELSE parameters[k].number
       ELSE parameters[k]]

\* The settings Provision passes to CreateDatabase.
ProvisionSettings(config, parameters) ==
    Overlay(PlanSettings(config), UserSettings(parameters))

\* The settings Update passes to UpdateDatabase.  Update does not resolve
\* defaults from the plan of the record (spec 3 keeps plan_id "for future
\* update-base", spec 9), so there are plan defaults only with a new plan.
UpdateSettings(planID, parameters) ==
    Overlay(IF planID # "" THEN PlanSettings(PlanConfig(planID)) ELSE <<>>,
            UserSettings(parameters))

(***************************************************************************)
(* Single calls of the parameter translator and of the client, on the      *)
(* plans, parameters and answers above.                                     *)
(***************************************************************************)
UnitInit ==
    /\ persisted = <<>>
    /\ cluster = <<>>
    /\ calls = 0
    /\ pc = [p \in Procs |-> "idle"]
    /\ req = [p \in Procs |-> NoRequest]
    /\ state = [p \in Procs |-> <<>>]
    /\ inst = [p \in Procs |-> NoInstance]
    /\ poller = [p \in Procs |-> NoPoller]
    /\ trace = [p \in Procs |-> <<>>]
    /\ result = [p \in Procs |-> NoResult]
    /\ call = NoCall

Idle == UNCHANGED <<persisted, cluster, calls, pc, req, state, inst, poller, trace, result>>

\* Provision, step 4: the settings of a request with a valid plan.
TranslateProvision(config, parameters) ==
    /\ call' = [op |-> "Provision", config |-> config, parameters |-> parameters,
                settings |-> ProvisionSettings(config, parameters)]
    /\ Idle

\* Update, step 4: the settings of a request for an instance whose record
\* names the plan current, with a new plan or without (planID "").
TranslateUpdate(current, planID, parameters) ==
    /\ call' = [op |-> "Update", current |-> current, planID |-> planID,
                parameters |-> parameters,
                settings |-> UpdateSettings(planID, parameters)]
    /\ Idle

\* The cluster of the single calls: database 1 is plain, database 2 a CRDB.
UnitCluster == << <<>>, GuidOf(2) >>
UIDs == {Itoa(1), Itoa(3), GuidOf(2)}

\* Non-200 answers: the two of Rejections, a description holding a '%', and an
\* error object without description.
UnitRejections ==
    Rejections
      \cup { Answer(422, "object", [description |-> "memory limit 90% reached",
                                    error_code |-> "memory_limit"]),
             Answer(409, "object", [error_code |-> "conflict"]) }

\* The address "host:port" of database n in the legacy status answer.
AddressOf(n) == <<"d">> \o Itoa(n) \o <<":">> \o Itoa(11908 + n)

\* Active status answers in the legacy shape, alone and beside endpoints.
LegacyAnswers(UID) ==
    IF \E n \in 1..Len(UnitCluster) : Itoa(n) = UID
    THEN LET n == CHOOSE n \in 1..Len(UnitCluster) : Itoa(n) = UID
             legacy == [uid |-> n, authentication_redis_pass |-> PasswordOf(n),
                        status |-> "active", dns_address_master |-> AddressOf(n),
                        endpoint_ip |-> << <<"10.0.2.">> \o Itoa(n) >>]
         IN  { Answer(200, "object", legacy),
               Answer(200, "object", Overlay(legacy, [endpoints |-> <<EndpointOf(n)>>])) }
    ELSE {}

\* A call of GetDatabase(UID).
GetDatabaseCall(UID) ==
    /\ \E res \in GetBdbAnswers(UnitCluster, UID) \cup LegacyAnswers(UID) :
         LET g == GetDatabase(res) IN
         call' = [op |-> "GetDatabase", UID |-> UID,
                  requests |-> <<[method |-> "GET", path |-> <<"/v1/bdbs/">> \o UID]>>,
                  answer |-> res, creds |-> g.creds, err |-> g.err]
    /\ Idle

\* delete(settings, key)
DeleteKey(settings, key) == [k \in DOMAIN settings \ {key} |-> settings[k]]

\* A list of clusters whose URLs are made of the names.
makeCRDBClustersByName(clusters) ==
    [i \in 1..Len(clusters) |->
       [name |-> clusters[i].Name,
        url |-> <<"http://">> \o clusters[i].Name \o <<":8080">>,
        credentials |-> [username |-> clusters[i].Auth.Username,
                         password |-> clusters[i].Auth.Password]]]

\* makeCRDBClusters(conf), clusters being conf.PeerClusters.Clusters.
makeCRDBClusters(clusters) ==
    [i \in 1..Len(clusters) |->
       [name |-> clusters[i].Name,
        url |-> <<"http://">> \o clusters[i].Address \o <<":8080">>,
        credentials |-> [username |-> clusters[i].Auth.Username,
                         password |-> clusters[i].Auth.Password]]]

\* settings["name"].(string) succeeds: the settings carry a name (the names
\* of the settings tried are all strings).
HasName(settings) == "name" \in DOMAIN settings

\* The document CreateCRDB posts: crdbSettings as json.Marshal writes it (guid
\* is left out when empty; the other fields are always there).
crdbSettings(settings, crdbClusters) ==
    [name |-> settings.name,
     default_db_config |-> settings,
     instances |-> [i \in 1..Len(crdbClusters) |->
                      [id |-> 0, compression |-> 0, cluster |-> crdbClusters[i],
                       db_config |-> Nil]]]

\* The settings CreateDatabase is called with: those of a Provision of plan
\* test-plan-1 by a user who names the database, without type, with the type
\* "crdb" and with another one.
CreateSettings ==
    { ProvisionSettings(PlanConfig("test-plan-1"), parameters) :
        parameters \in { [name |-> "mydb"],
                         [name |-> "mydb", type |-> "crdb"],
                         [name |-> "mydb", type |-> "redis"],
                         [type |-> "crdb"] } }

\* A call of CreateDatabase(settings) up to its return, by a client made for
\* the peer clusters given: the request it sends and its body, the error it
\* returns and whether it returns a channel and starts a poller.  CRDB settings
\* without a name stop the calling task at the type assertion of CreateCRDB,
\* before anything is sent: the call does not return (aborted).
CreateDatabaseCall(settings, clusters) ==
    LET type == Field(settings, "type", "") IN
    /\ IF type = "crdb" /\ ~HasName(settings)
       THEN call' = [op |-> "CreateDatabase", type |-> type,
                     settings |-> settings, clusters |-> clusters,
                     requests |-> <<>>, body |-> Nil, answer |-> Nil,
                     err |-> Nil, channel |-> FALSE, poller |-> FALSE,
                     aborted |-> TRUE]
       ELSE IF type = "crdb"
       THEN \E res \in PostCrdbsAnswers(UnitCluster) \cup UnitRejections :
              LET c == CreateCRDB(res) IN
              call' = [op |-> "CreateDatabase", type |-> type,
                       settings |-> settings, clusters |-> clusters,
                       requests |-> <<[method |-> "POST", path |-> <<"/v1/crdbs">>]>>,
                       body |-> crdbSettings(DeleteKey(settings, "type"),
                                             makeCRDBClusters(clusters)),
                       answer |-> res, err |-> c.err,
                       channel |-> (c.err = Nil), poller |-> (c.err = Nil),
                       aborted |-> FALSE]
       ELSE \E res \in PostBdbsAnswers(UnitCluster) \cup UnitRejections :
              LET c == CreateDatabase(res) IN
              call' = [op |-> "CreateDatabase", type |-> type,
                       settings |-> settings, clusters |-> clusters,
                       requests |-> <<[method |-> "POST", path |-> <<"/v1/bdbs">>]>>,
                       body |-> settings,
                       answer |-> res, err |-> c.err,
                       channel |-> (c.err = Nil), poller |-> (c.err = Nil),
                       aborted |-> FALSE]
    /\ Idle

\* A call of UpdateDatabase(UID, params).
UpdateDatabaseCall(UID) ==
    /\ \E res \in PlainAnswers \cup UnitRejections :
         call' = [op |-> "UpdateDatabase", UID |-> UID,
                  requests |-> <<[method |-> "PUT", path |-> <<"/v1/bdbs/">> \o UID]>>,
                  answer |-> res, err |-> UpdateDatabase(res)]
    /\ Idle

\* A call of DeleteDatabase(UID).
DeleteDatabaseCall(UID) ==
    /\ IF isCRDBUID(UID)
       THEN \E res \in DeleteCrdbAnswers(UID) \cup UnitRejections :
              call' = [op |-> "DeleteDatabase", UID |-> UID,
                       requests |-> <<[method |-> "DELETE", path |-> <<"/v1/crdbs/">> \o UID]>>,
                       answer |-> res, err |-> DeleteCRDB(res)]
       ELSE \E res \in PlainAnswers \cup UnitRejections :
              call' = [op |-> "DeleteDatabase", UID |-> UID,
                       requests |-> <<[method |-> "DELETE", path |-> <<"/v1/bdbs/">> \o UID]>>,
                       answer |-> res, err |-> DeleteDatabase(res)]
    /\ Idle

(***************************************************************************)
(* persisters: the state file.  Save writes the whole state as one JSON    *)
(* document {"available_instances": [...]}, Load reads it back.            *)
(***************************************************************************)
AbsentFile == [kind |-> "absent"]
EmptyFile == [kind |-> "empty"]
CorruptFile == [kind |-> "garbage"]

\* The JSON object of a record and the record of a JSON object.
InstanceObject(instance) ==
    [id |-> instance.ID, plan_id |-> instance.PlanID,
     credentials |-> [uid |-> instance.Credentials.UID,
                      host |-> instance.Credentials.Host,
                      port |-> instance.Credentials.Port,
                      ip_list |-> instance.Credentials.IPList,
                      password |-> instance.Credentials.Password]]

\* A decoding that looks for the addresses under the key "iplist".
InstanceOfObjectIPList(obj) ==
    LET creds == Field(obj, "credentials", <<>>) IN
    ServiceInstance(Field(obj, "id", ""), Field(obj, "plan_id", ""),
        [UID |-> Field(creds, "uid", <<>>), Host |-> Field(creds, "host", <<>>),
         Port |-> Field(creds, "port", 0), IPList |-> Field(creds, "iplist", <<>>),
         Password |-> Field(creds, "password", <<>>)])

InstanceOfObject(obj) ==
    LET creds == Field(obj, "credentials", <<>>) IN
    ServiceInstance(Field(obj, "id", ""), Field(obj, "plan_id", ""),
        [UID |-> Field(creds, "uid", <<>>), Host |-> Field(creds, "host", <<>>),
         Port |-> Field(creds, "port", 0), IPList |-> Field(creds, "ip_list", <<>>),
         Password |-> Field(creds, "password", <<>>)])

\* Save(state): the file it leaves.
Save(s) ==
    [kind |-> "json",
     doc |-> [available_instances |-> [i \in 1..Len(s) |-> InstanceObject(s[i])]]]

\* Load(): the state and the error, given the file.
Load(file) ==
    IF file.kind \in {"absent", "empty"} THEN [state |-> <<>>, err |-> Nil]
    ELSE IF file.kind # "json" THEN [state |-> <<>>, err |-> ErrDecode]
    ELSE LET list == Field(file.doc, "available_instances", <<>>) IN
         [state |-> [i \in 1..Len(list) |-> InstanceOfObject(list[i])], err |-> Nil]

\* Records a state can hold: a legacy one, a plain one and a CRDB one.
StoredInstances ==
    { LegacyInstance,
      ServiceInstance("some-id", "test-plan-1",
          [UID |-> Itoa(2), Host |-> HostOf(2), Port |-> EndpointOf(2).port,
           IPList |-> EndpointOf(2).addr, Password |-> PasswordOf(2)]),
      ServiceInstance("crdb-id", "test-plan-2",
          [UID |-> GuidOf(3), Host |-> HostOf(3), Port |-> EndpointOf(3).port,
           IPList |-> EndpointOf(3).addr, Password |-> PasswordOf(3)]) }

\* The states Save is given: up to MaxRecords records of different ids.
States ==
    { s \in UNION { [1..n -> StoredInstances] : n \in 0..MaxRecords } :
        \A i, j \in 1..Len(s) : i # j => s[i].ID # s[j].ID }

\* A call of Save(s).
SaveCall(s) ==
    /\ call' = [op |-> "Save", state |-> s, file |-> Save(s)]
    /\ Idle

\* A call of Load() on the file the last Save left.
LoadCall ==
    /\ call.op = "Save"
    /\ call' = [op |-> "Load", saved |-> call.state, file |-> call.file,
                state |-> Load(call.file).state, err |-> Load(call.file).err]
    /\ Idle

\* A call of Load() with no Save before it: on no file, an empty or a broken one.
LoadFileCall(file) ==
    /\ call' = [op |-> "Load", saved |-> <<>>, file |-> file,
                state |-> Load(file).state, err |-> Load(file).err]
    /\ Idle

(***************************************************************************)
(* config: the peer clusters of a configuration file.  Strings are         *)
(* sequences of characters.                                                *)
(***************************************************************************)
ErrInvalidPeerCluster == "Invalid peer cluster string"
ErrOpen == "open: no such file or directory"

\* The first index of ch in str at or after from, 0 when there is none.
RECURSIVE IndexFrom(_, _, _)
IndexFrom(str, ch, from) ==
    IF from > Len(str) THEN 0
    ELSE IF str[from] = ch THEN from
    ELSE IndexFrom(str, ch, from + 1)

\* strings.Split(str, sep): always at least one part.
RECURSIVE Split(_, _)
Split(str, sep) ==
    LET i == IndexFrom(str, sep, 1) IN
    IF i = 0 THEN <<str>>
    ELSE <<SubSeq(str, 1, i - 1)>> \o Split(SubSeq(str, i + 1, Len(str)), sep)

IsDigit(ch) == \E d \in 1..10 : Digits[d] = ch

\* The number of digits of str from index i on.
RECURSIVE DigitRun(_, _)
DigitRun(str, i) ==
    IF i > Len(str) \/ ~IsDigit(str[i]) THEN 0 ELSE 1 + DigitRun(str, i + 1)

\* \d{1,3}\. at i: the index after the dot, 0 when it does not match.
OctetDot(str, i) ==
    LET n == DigitRun(str, i) IN
    IF i # 0 /\ n \in 1..3 /\ i + n <= Len(str) /\ str[i + n] = "." THEN i + n + 1 ELSE 0

\* (/\d{1,3}\.\d{1,3}\.\d{1,3}\.\d{1,3})? at i: the text matched, with its
\* slash, <<>> when the group does not take part in the match.
AddrGroup(str, i) ==
    IF i > Len(str) \/ str[i] # "/" THEN <<>>
    ELSE LET last == OctetDot(str, OctetDot(str, OctetDot(str, i + 1)))
             n == IF last = 0 THEN 0 ELSE DigitRun(str, last)
         IN  IF last = 0 \/ n = 0 THEN <<>>
             ELSE SubSeq(str, i, last + (IF n > 3 THEN 3 ELSE n) - 1)

\* re.FindStringSubmatch(part): <<>> when nothing matches, else the whole
\* match and the groups user, pass, fqdn, addr.  The match is the leftmost
\* one: user runs to the first colon, pass to the first '@' after it, fqdn
\* to the next slash or the end; the pattern is not anchored at the end.
FindStringSubmatch(part) ==
    LET colon == IndexFrom(part, ":", 1)
        at == IF colon = 0 THEN 0 ELSE IndexFrom(part, "@", colon + 1)
        slash == IF at = 0 THEN 0 ELSE IndexFrom(part, "/", at + 1)
        fqdnEnd == IF slash = 0 THEN Len(part) ELSE slash - 1
        addr == AddrGroup(part, fqdnEnd + 1)
    IN  IF at = 0 THEN <<>>
        ELSE << SubSeq(part, 1, fqdnEnd + Len(addr)),
                SubSeq(part, 1, colon - 1),
                SubSeq(part, colon + 1, at - 1),
                SubSeq(part, at + 1, fqdnEnd),
                addr >>

ClusterConfig(username, password, name, address) ==
    [Auth |-> [Username |-> username, Password |-> password],
     Name |-> name, Address |-> address]

\* A cluster whose address keeps the slash of the addr group.
ClusterOfWithSlash(m) ==
    ClusterConfig(m[2], m[3], m[4], IF m[5] # <<>> THEN m[5] ELSE m[4])

\* The body of the loop of parsePeerClustersString, m being the match.
ClusterOf(m) ==
    ClusterConfig(m[2], m[3], m[4],
                  IF m[5] # <<>> THEN SubSeq(m[5], 2, Len(m[5])) ELSE m[4])

parsePeerClustersString(str) ==
    LET str_parts == Split(str, ";") IN
    IF \E i \in 1..Len(str_parts) : FindStringSubmatch(str_parts[i]) = <<>>
    THEN [clusters |-> <<>>, err |-> ErrInvalidPeerCluster]
    ELSE [clusters |-> [i \in 1..Len(str_parts) |->
                           ClusterOf(FindStringSubmatch(str_parts[i]))],
          err |-> Nil]

\* The part of config.Config that the peer clusters fill.
ZeroConfig == [PeerClusters |-> [String |-> <<>>, Clusters |-> <<>>]]

\* LoadFromFile(path), given the file at the path: absent, not YAML, or a
\* document whose peer_clusters.string is file.String.
LoadFromFile(file) ==
    IF file.kind = "absent" THEN [config |-> ZeroConfig, err |-> ErrOpen]
    ELSE IF file.kind # "yaml" THEN [config |-> ZeroConfig, err |-> ErrDecode]
    ELSE IF file.String # <<>>
    THEN LET parsed == parsePeerClustersString(file.String) IN
         IF parsed.err # Nil THEN [config |-> ZeroConfig, err |-> parsed.err]
         ELSE [config |-> [PeerClusters |-> [String |-> file.String,
                                             Clusters |-> parsed.clusters]],
               err |-> Nil]
    ELSE [config |-> [PeerClusters |-> [String |-> <<>>, Clusters |-> <<>>]],
          err |-> Nil]

\* The parts a peer-clusters string is written from, each with what it
\* says: whether it has the shape user:pass@fqdn, and its four fields.
PeerParts ==
    << [text |-> <<"a", ":", "s", "@", "c", "1">>, shaped |-> TRUE,
        user |-> <<"a">>, pass |-> <<"s">>, fqdn |-> <<"c", "1">>, addr |-> <<>>],
       [text |-> <<"b", ":", "t", "@", "c", "2", "/", "1", "0", ".", "0", ".", "0", ".", "5">>,
        shaped |-> TRUE, user |-> <<"b">>, pass |-> <<"t">>, fqdn |-> <<"c", "2">>,
        addr |-> <<"1", "0", ".", "0", ".", "0", ".", "5">>],
       [text |-> <<"c", "3">>, shaped |-> FALSE,
        user |-> <<>>, pass |-> <<>>, fqdn |-> <<>>, addr |-> <<>>],
       [text |-> <<"a", "@", "c", "4">>, shaped |-> FALSE,
        user |-> <<>>, pass |-> <<>>, fqdn |-> <<>>, addr |-> <<>>],
       [text |-> <<"d", ":", "u", ":", "v", "@", "c", "5", "/", "2", "5", "5", ".", "1", ".", "1", ".", "1", "2">>,
        shaped |-> TRUE, user |-> <<"d">>, pass |-> <<"u", ":", "v">>, fqdn |-> <<"c", "5">>,
        addr |-> <<"2", "5", "5", ".", "1", ".", "1", ".", "1", "2">>],
       [text |-> <<>>, shaped |-> FALSE,
        user |-> <<>>, pass |-> <<>>, fqdn |-> <<>>, addr |-> <<>>] >>

\* The parts joined with ';'.
RECURSIVE JoinParts(_)
JoinParts(chosen) ==
    IF Len(chosen) = 1 THEN PeerParts[chosen[1]].text
    ELSE PeerParts[chosen[1]].text \o <<";">> \o JoinParts(Tail(chosen))

\* The lists of parts of the strings tried: 1 to MaxParts parts.
PartLists == UNION { [1..n -> 1..Len(PeerParts)] : n \in 1..MaxParts }

\* The peer clusters a client is made for: none, one, and two in either order.
PeerConfigs ==
    {<<>>} \cup { parsePeerClustersString(JoinParts(chosen)).clusters :
                    chosen \in {<<1>>, <<1, 2>>, <<2, 1>>} }

\* A call of LoadFromFile on a file whose peer-clusters string is written
\* from the parts chosen.
LoadFromFileCall(chosen) ==
    LET file == [kind |-> "yaml", String |-> JoinParts(chosen)] IN
    /\ call' = [op |-> "LoadFromFile", file |-> file, chosen |-> chosen,
                config |-> LoadFromFile(file).config, err |-> LoadFromFile(file).err]
    /\ Idle

\* A call of LoadFromFile on a file that is absent or is not YAML.
LoadFromBadFileCall(file) ==
    /\ call' = [op |-> "LoadFromFile", file |-> file, chosen |-> <<>>,
                config |-> LoadFromFile(file).config, err |-> LoadFromFile(file).err]
    /\ Idle

(***************************************************************************)
(* The poller of CreateDatabase and its caller.  The channel is made       *)
(* without a buffer: the poller's send ends when the caller receives.      *)
(***************************************************************************)
\* The cluster once the database of the call is created.
UnitClusterCreated == Append(UnitCluster, <<>>)

\* CreateDatabase has returned its channel: the poller starts, the caller
\* holds the channel.
PollerBegins ==
    /\ call.op = "CreateDatabase"
    /\ call.type # "crdb"
    /\ call.poller
    /\ call' = [op |-> "poller", dbUid |-> CreateDatabase(call.answer).dbUid,
                at |-> "poll", rounds |-> 0, creds |-> ZeroCredentials,
                caller |-> "holds", received |-> ZeroCredentials]
    /\ Idle

\* One round of the poller: GetDatabase(dbUid), then the send or another round.
PollerRound ==
    /\ call.op = "poller"
    /\ call.at = "poll"
    /\ call.rounds < MaxPolls
    /\ \E res \in GetBdbAnswers(UnitClusterCreated, call.dbUid) :
         LET g == GetDatabase(res) IN
         call' = IF g.err # Nil
                 THEN [call EXCEPT !.rounds = @ + 1]
                 ELSE [call EXCEPT !.rounds = @ + 1, !.at = "send", !.creds = g.creds]
    /\ Idle

\* The caller receives from the channel; the poller's send ends and the
\* poller with it.
Receive ==
    /\ call.op = "poller"
    /\ call.at = "send"
    /\ call.caller = "holds"
    /\ call' = [call EXCEPT !.at = "exit", !.caller = "received", !.received = call.creds]
    /\ Idle

\* The caller drops the channel without receiving from it.
Abandon ==
    /\ call.op = "poller"
    /\ call.caller = "holds"
    /\ call' = [call EXCEPT !.caller = "gone"]
    /\ Idle

UnitNext ==
    \/ \E config \in InstanceConfigs, parameters \in UserParameters :
         TranslateProvision(config, parameters)
    \/ \E current \in PlanIDs, planID \in PlanIDs \cup {""}, parameters \in UserParameters :
         TranslateUpdate(current, planID, parameters)
    \/ \E UID \in UIDs : GetDatabaseCall(UID)
    \/ \E settings \in CreateSettings, clusters \in PeerConfigs :
         CreateDatabaseCall(settings, clusters)
    \/ \E UID \in UIDs : UpdateDatabaseCall(UID)
    \/ \E UID \in UIDs : DeleteDatabaseCall(UID)
    \/ \E state_ \in States : SaveCall(state_)
    \/ LoadCall
    \/ \E file \in {AbsentFile, EmptyFile, CorruptFile} : LoadFileCall(file)
    \/ \E chosen \in PartLists : LoadFromFileCall(chosen)
    \/ \E file \in {AbsentFile, CorruptFile} : LoadFromBadFileCall(file)
    \/ PollerBegins
    \/ PollerRound
    \/ Receive
    \/ Abandon

UnitSpec == UnitInit /\ [][UnitNext]_vars

(***************************************************************************)
(* Vocabulary of the properties.                                           *)
(***************************************************************************)
Done(p, op) == pc[p] = "done" /\ req[p].op = op
Succeeded(p, op) == Done(p, op) /\ result[p].err = Nil
Failed(p, op, err) == Done(p, op) /\ result[p].err = err
ValidService(p) == req[p].ServiceID = ServiceID
Sent(p) == {trace[p][i].req : i \in 1..Len(trace[p])} \ {"Save"}
Saved(p) == \E i \in 1..Len(trace[p]) : trace[p][i] = Event("Save", "ok")

\* The step in which a Provision of task p returns success.
ProvisionSucceeds(p) ==
    /\ req[p].op = "Provision"
    /\ pc[p] = "wait"
    /\ pc'[p] = "done"
    /\ result'[p].err = Nil

\* The credentials of the cluster's database with the uid or CRDB GUID UID.
ClusterCredentials(UID) ==
    LET n == CHOOSE n \in 1..Len(cluster) : Itoa(n) = UID \/ cluster[n] = UID
    IN  [UID |-> UID, Host |-> EndpointOf(n).dns_name, Port |-> EndpointOf(n).port,
         IPList |-> EndpointOf(n).addr, Password |-> PasswordOf(n)]

\* C1: when a Provision(id, details) returns success the state file holds
\* exactly one record with that id, the record holds the credentials of the
\* database the cluster created for the call, and a Bind(id) then returns the
\* record's host, port, ip_list and password.
C1_ProvisionPersistsReportedCredentials ==
    [][\A p \in Procs :
         ProvisionSucceeds(p) =>
           LET id == req[p].instanceID
               creds == Found(persisted', id).Credentials
           IN  /\ Count(persisted', id) = 1
               /\ creds = ClusterCredentials(poller[p].dbUid)
               /\ \A res \in GetBdbAnswers(cluster, creds.UID) :
                    Binding(creds, getHost(creds.Host, res))
                      = [host |-> creds.Host, port |-> creds.Port,
                         ip_list |-> creds.IPList, password |-> creds.Password]]_vars

\* C2: in a Provision, plain or CRDB, every Save comes after a status answer
\* that reported the database active, which comes after a create POST that was
\* answered 200.
C2_SavedOnlyAfterActive ==
    \A p \in Procs :
      req[p].op = "Provision" =>
        \A i \in 1..Len(trace[p]) :
          trace[p][i].req = "Save" =>
            \E j \in 1..(i - 1) :
              /\ trace[p][j] \in {Event("GET /v1/bdbs/{uid}", "active"),
                                  Event("GET /v1/bdbs", "active")}
              /\ \E k \in 1..(j - 1) :
                   trace[p][k] \in {Event("POST /v1/bdbs", "200"),
                                    Event("POST /v1/crdbs", "200")}

\* The plain flow alone keeps the order of C2.
PlainSavedOnlyAfterActive ==
    \A p \in Procs :
      (req[p].op = "Provision" /\ req[p].type # "crdb") =>
        \A i \in 1..Len(trace[p]) :
          trace[p][i].req = "Save" =>
            \E j \in 1..(i - 1) :
              /\ trace[p][j] = Event("GET /v1/bdbs/{uid}", "active")
              /\ \E k \in 1..(j - 1) : trace[p][k] = Event("POST /v1/bdbs", "200")

\* What the answers to a task's requests and its Saves were, in order.
Requests(p) == [i \in 1..Len(trace[p]) |-> trace[p][i].req]
ValidPlan(p) == req[p].PlanID \in PlanIDs
Arrived(p, op) == req[p].op = op /\ pc[p] # "idle"

\* C3: a Provision with a valid service and plan that finds a record with its
\* id in the state file fails with InstanceAlreadyExists, has sent nothing to
\* the cluster and has saved nothing.
C3_SecondProvisionRejected ==
    \A p \in Procs :
      (Arrived(p, "Provision") /\ ValidService(p) /\ ValidPlan(p)
         /\ inst[p] # NoInstance) =>
        /\ Failed(p, "Provision", ErrInstanceAlreadyExists)
        /\ trace[p] = <<>>

\* A Provision succeeded and a later Provision with the same id was rejected,
\* the file holding the one record of the first.
C3_Witness ==
    \E p, q \in Procs :
      /\ p # q
      /\ Succeeded(q, "Provision") /\ Saved(q)
      /\ req[p].instanceID = req[q].instanceID
      /\ ValidService(p) /\ ValidPlan(p)
      /\ Failed(p, "Provision", ErrInstanceAlreadyExists)
      /\ inst[p].Credentials = ClusterCredentials(poller[q].dbUid)
      /\ Count(persisted, req[p].instanceID) = 1

\* C4: the Save of a Provision that succeeds keeps every record of another
\* id that the state file held just before it, so of two concurrent Provisions
\* of different ids the later Save keeps the record of the earlier one.
C4_SaveKeepsEarlierRecords ==
    [][\A p \in Procs :
         ProvisionSucceeds(p) =>
           \A i \in 1..Len(persisted) :
             persisted[i].ID # req[p].instanceID =>
               \E j \in 1..Len(persisted') : persisted'[j] = persisted[i]]_vars

\* C5: no two records of the state file have the same id.
C5_UniqueIDs ==
    \A i, j \in 1..Len(persisted) :
      persisted[i].ID = persisted[j].ID => i = j

\* Two concurrent Provisions of one id have both succeeded.
C5_Witness ==
    \E p, q \in Procs :
      /\ p # q
      /\ Succeeded(p, "Provision") /\ Saved(p)
      /\ Succeeded(q, "Provision") /\ Saved(q)
      /\ req[p].instanceID = req[q].instanceID
      /\ Count(persisted, req[p].instanceID) = 1

\* C6: a Deprovision that finds no record with its id in the state file fails
\* with InstanceDoesNotExist and has sent no DELETE to the cluster.
C6_DeprovisionOfMissingInstance ==
    \A p \in Procs :
      (Arrived(p, "Deprovision") /\ inst[p] = NoInstance) =>
        /\ Failed(p, "Deprovision", ErrInstanceDoesNotExist)
        /\ trace[p] = <<>>

\* A Deprovision succeeded and a later Deprovision of the same id was rejected.
C6_Witness ==
    \E p, q \in Procs :
      /\ p # q
      /\ Succeeded(q, "Deprovision") /\ Saved(q)
      /\ req[p].instanceID = req[q].instanceID
      /\ Failed(p, "Deprovision", ErrInstanceDoesNotExist)
      /\ ~InstanceExists(persisted, req[p].instanceID)

\* The step in which a Deprovision of task p returns after its DELETE.
DeprovisionReturns(p) ==
    /\ req[p].op = "Deprovision"
    /\ pc[p] = "delete"
    /\ pc'[p] = "done"

\* The records of s without those of the given id, in the order of s.
Others(s, instanceID) == SelectSeq(s, LAMBDA r : r.ID # instanceID)

\* C7: a Deprovision of an existing instance sends one DELETE and no other
\* request. When it returns success the DELETE was answered 200 and the file
\* holds the state the call loaded without the record of its id and with every
\* other record; when it returns an error the file is as it was before.
C7_DeprovisionRemovesOnlyAfterDelete ==
    [][\A p \in Procs :
         DeprovisionReturns(p) =>
           LET id == req[p].instanceID
               delete == DeleteRequest(inst[p].Credentials.UID)
           IN  /\ Len(trace'[p]) >= 1
               /\ trace'[p][1].req = delete
               /\ Sent(p)' = {delete}
               /\ IF result'[p].err = Nil
                  THEN /\ trace'[p] = <<Event(delete, "200"), Event("Save", "ok")>>
                       /\ Count(state[p], id) = 1
                       /\ persisted' = Others(state[p], id)
                  ELSE /\ persisted' = persisted
                       /\ ~Saved(p)']_vars

\* A Deprovision has removed the record of its instance after a DELETE that was
\* accepted, and another one has kept the record after a DELETE that failed.
C7_Witness ==
    \E p, q \in Procs :
      /\ Succeeded(p, "Deprovision")
      /\ trace[p] = <<Event(DeleteRequest(inst[p].Credentials.UID), "200"),
                      Event("Save", "ok")>>
      /\ ~InstanceExists(persisted, req[p].instanceID)
      /\ Done(q, "Deprovision")
      /\ req[q].instanceID = req[p].instanceID
      /\ result[q].err \notin {Nil, ErrInstanceDoesNotExist, ErrPersistence}
      /\ trace[q] = <<Event(DeleteRequest(inst[q].Credentials.UID), "not 200")>>

ClusterHost(UID) ==
    LET n == CHOOSE n \in 1..Len(cluster) : Itoa(n) = UID
    IN  EndpointOf(n).dns_name

BindingKeys == {"host", "port", "ip_list", "password"}

\* C9 as stated: a Bind of an instance without record fails with
\* InstanceDoesNotExist; any other Bind returns the host, port, ip_list and
\* password of the record and nothing else, whatever its binding id and details.
C9_BindReturnsRecord ==
    \A p \in Procs :
      Done(p, "Bind") =>
        IF inst[p] = NoInstance
        THEN result[p] = [err |-> ErrInstanceDoesNotExist, val |-> Nil]
        ELSE /\ result[p].err = Nil
             /\ result[p].val = [host |-> inst[p].Credentials.Host,
                                 port |-> inst[p].Credentials.Port,
                                 ip_list |-> inst[p].Credentials.IPList,
                                 password |-> inst[p].Credentials.Password]

\* C9: a Bind of an instance without record fails with InstanceDoesNotExist;
\* any other Bind returns exactly the keys host, port, ip_list and password,
\* the last three from the record, and the host from the record when the
\* record has one. For a record without host Bind asks the cluster once for
\* the database of the record's uid and returns the host the cluster reports,
\* or the empty host when the request did not report an active database.
C9_BindReturnsRecordOrClusterHost ==
    \A p \in Procs :
      Done(p, "Bind") =>
        IF inst[p] = NoInstance
        THEN result[p] = [err |-> ErrInstanceDoesNotExist, val |-> Nil] /\ trace[p] = <<>>
        ELSE LET creds == inst[p].Credentials
                 val == result[p].val
             IN  /\ result[p].err = Nil
                 /\ DOMAIN val = BindingKeys
                 /\ val.port = creds.Port
                 /\ val.ip_list = creds.IPList
                 /\ val.password = creds.Password
                 /\ IF creds.Host # <<>>
                    THEN val.host = creds.Host /\ trace[p] = <<>>
                    ELSE /\ Requests(p) = <<"GET /v1/bdbs/{uid}">>
                         /\ val.host # <<>> =>
                              /\ trace[p][1].res = "active"
                              /\ val.host = ClusterHost(creds.UID)
                         /\ trace[p][1].res = "not active" => val.host = <<>>

\* A Bind of a record without host has returned the host the cluster
\* reported for the database of the record.
C9_Witness ==
    \E p \in Procs :
      /\ Succeeded(p, "Bind")
      /\ inst[p] # NoInstance
      /\ inst[p].Credentials.Host = <<>>
      /\ result[p].val.host = ClusterHost(inst[p].Credentials.UID)
      /\ result[p].val.host # <<>>

\* C10: Update validates the service id, then the existence of the instance,
\* then the plan id: an unknown service id gives ServiceDoesNotExist even
\* without record of the instance, the configured service id without record
\* gives InstanceDoesNotExist even with an unknown plan id, a record with a
\* supplied unknown plan id gives PlanDoesNotExist, and none of the three
\* sends a PUT.
C10_UpdateValidationOrder ==
    \A p \in Procs :
      Arrived(p, "Update") =>
        /\ ~ValidService(p) =>
             Failed(p, "Update", ErrServiceDoesNotExist) /\ trace[p] = <<>>
        /\ (ValidService(p) /\ inst[p] = NoInstance) =>
             Failed(p, "Update", ErrInstanceDoesNotExist) /\ trace[p] = <<>>
        /\ (ValidService(p) /\ inst[p] # NoInstance
              /\ req[p].PlanID # "" /\ ~ValidPlan(p)) =>
             Failed(p, "Update", ErrPlanDoesNotExist) /\ trace[p] = <<>>

\* An Update without record was rejected for its instance although its plan
\* is unknown, and an Update of a record was rejected for its plan.
C10_Witness ==
    \E p, q \in Procs :
      /\ ValidService(p) /\ ~ValidPlan(p) /\ req[p].PlanID # ""
      /\ inst[p] = NoInstance
      /\ Failed(p, "Update", ErrInstanceDoesNotExist)
      /\ ValidService(q) /\ ~ValidPlan(q) /\ req[q].PlanID # ""
      /\ inst[q] # NoInstance
      /\ Failed(q, "Update", ErrPlanDoesNotExist)

(***************************************************************************)
(* Vocabulary of the properties of the settings.                            *)
(***************************************************************************)
\* The keys a plan gives settings, and the value it gives each.
BaseKeys(config) ==
    {"memory_size", "replication", "data_persistence", "sharding", "implicit_shard_key"}
      \cup (IF config.shard_count > 1 THEN {"shards_count", "shard_key_regex"} ELSE {})
      \cup (IF config.persistence = "snapshot" THEN {"snapshot_policy"} ELSE {})

BaseValue(config, k) ==
    CASE k = "memory_size" -> config.memory_limit
      [] k = "replication" -> config.replication
      [] k = "data_persistence" -> config.persistence
      [] k = "shards_count" -> config.shard_count
      [] k \in {"sharding", "implicit_shard_key"} -> config.shard_count > 1
      [] k = "shard_key_regex" ->
           <<[regex |-> ".*\\{(?<tag>.*)\\}.*"], [regex |-> "(?<tag>.*)"]>>
      [] k = "snapshot_policy" ->
           <<[writes |-> config.snapshot.writes, secs |-> config.snapshot.secs]>>

\* The value the user gives key k.
UserValue(parameters, k) ==
    IF k # "memory_size" THEN parameters[k]
    ELSE IF DOMAIN parameters[k] = {"number"} THEN parameters[k].number
    ELSE Atoi(parameters[k].string)

\* The settings are the defaults of the plan config overlaid with the
\* parameters: the user's keys with the user's values, the plan's other keys
\* with the plan's values, and no other key.
Overlaid(settings, config, parameters) ==
    /\ DOMAIN settings = DOMAIN parameters \cup BaseKeys(config)
    /\ \A k \in DOMAIN parameters : settings[k] = UserValue(parameters, k)
    /\ \A k \in BaseKeys(config) \ DOMAIN parameters : settings[k] = BaseValue(config, k)

\* C11: the settings an Update sends are the defaults of the base plan
\* overlaid key by key with the user's parameters, the base plan being the new
\* plan when the request names one and the plan of the instance otherwise.
C11_UpdateOverlaysBasePlan ==
    call.op = "Update" =>
      Overlaid(call.settings,
               PlanConfig(IF call.planID # "" THEN call.planID ELSE call.current),
               call.parameters)

\* With a new plan the settings of an Update are that plan's defaults overlaid
\* with the user's parameters.
UpdateOverlaysNewPlan ==
    (call.op = "Update" /\ call.planID # "") =>
      Overlaid(call.settings, PlanConfig(call.planID), call.parameters)

\* A step of an Update of task p: its arrival or its return.
UpdateStep(p) ==
    /\ req'[p].op = "Update"
    /\ <<pc[p], req[p], result[p], trace[p]>> # <<pc'[p], req'[p], result'[p], trace'[p]>>

\* C12: no step of an Update, successful or failed, changes the state file:
\* the records, their ids and their credentials are after the step what they
\* were before it.
C12_UpdateKeepsState ==
    [][\A p \in Procs : UpdateStep(p) => persisted' = persisted]_vars

\* An Update has sent its PUT and returned success, and the record of its
\* instance is the one it found.
C12_Witness ==
    \E p \in Procs :
      /\ Succeeded(p, "Update")
      /\ trace[p] = <<Event("PUT /v1/bdbs/{uid}", "200")>>
      /\ inst[p] # NoInstance
      /\ Found(persisted, req[p].instanceID) = inst[p]

\* The polls of task p that found its database ready.
ReadyPolls(p) ==
    {i \in 1..Len(trace[p]) : trace[p][i] \in {Event("GET /v1/bdbs/{uid}", "active"),
                                               Event("GET /v1/bdbs", "active")}}

\* The readiness channel of task p's CreateDatabase is single-shot: while the
\* poller has sent nothing no poll has found the database ready; once it has
\* sent, one poll has found it ready, the value is the credentials of the
\* database and the poller has sent no request since.
SingleShot(p) ==
    /\ poller[p].at \in {"none", "poll"} => ReadyPolls(p) = {}
    /\ poller[p].at \in {"send", "exit"} =>
         /\ Cardinality(ReadyPolls(p)) = 1
         /\ \A i \in ReadyPolls(p) :
              \A j \in (i + 1)..Len(trace[p]) : trace[p][j].req = "Save"
         /\ poller[p].creds = ClusterCredentials(poller[p].dbUid)

\* C13: the readiness channel of a successful CreateDatabase carries at most
\* one value, the credentials returned by the first poll that found the
\* database active with an endpoint, and the poller sends no request after it.
C13_ReadinessChannelSingleShot ==
    \A p \in Procs : req[p].op = "Provision" => SingleShot(p)

\* The channel of the plain flow is single-shot.
PlainReadinessChannelSingleShot ==
    \A p \in Procs : (req[p].op = "Provision" /\ req[p].type # "crdb") => SingleShot(p)

\* A plain poller has sent the credentials at its second poll, the first not
\* having found the database ready.
PlainReadinessWitness ==
    \E p \in Procs :
      /\ Succeeded(p, "Provision")
      /\ req[p].type # "crdb"
      /\ poller[p].at = "exit"
      /\ Polls(p) = 2
      /\ ReadyPolls(p) = {3}

(***************************************************************************)
(* Single calls of the client.                                             *)
(***************************************************************************)
\* The cluster answered with a status other than 200.
Rejected(res) == res.transport = Nil /\ res.StatusCode # 200
\* The body of the answer is an error object with a description.
Described(res) == res.kind = "object" /\ "description" \in DOMAIN res.obj
\* The call sent one request, with the given method and path.
SentOnly(method, path) == call.requests = <<[method |-> method, path |-> path]>>

\* C14: when the cluster answers POST /v1/bdbs with a status other than 200,
\* CreateDatabase returns an error, no channel and starts no poller, having
\* sent the POST alone, and the message of the error is the description of
\* the cluster's error body.
C14_CreateDatabaseRejected ==
    (call.op = "CreateDatabase" /\ call.type # "crdb" /\ Rejected(call.answer)) =>
      /\ call.err # Nil
      /\ ~call.channel /\ ~call.poller
      /\ SentOnly("POST", <<"/v1/bdbs">>)
      /\ Described(call.answer) => call.err = call.answer.obj.description

\* A rejected CreateDatabase returns the description passed through fmt.Errorf,
\* no channel and no poller.
CreateDatabaseRejectedFormatted ==
    (call.op = "CreateDatabase" /\ call.type # "crdb" /\ Rejected(call.answer)) =>
      /\ call.err # Nil
      /\ ~call.channel /\ ~call.poller
      /\ SentOnly("POST", <<"/v1/bdbs">>)
      /\ Described(call.answer) => call.err = Errorf(call.answer.obj.description)

\* The body of the answer is a JSON object.
Decodable(res) == res.transport = Nil /\ res.kind = "object"
\* The status and the endpoints list of a status body.
StatusIn(obj) == IF "status" \in DOMAIN obj THEN obj.status ELSE ""
EndpointsIn(obj) == IF "endpoints" \in DOMAIN obj THEN obj.endpoints ELSE <<>>

NotActiveWithoutEndpointWitness ==
    /\ call.op = "GetDatabase"
    /\ call.err = errDbIsNotActive
    /\ Decodable(call.answer)
    /\ StatusIn(call.answer.obj) = "pending"
    /\ EndpointsIn(call.answer.obj) = <<>>

\* The position of the last ':' of an address "host:port", and its two parts.
LastColon(address) ==
    CHOOSE i \in 1..Len(address) :
      address[i] = ":" /\ \A j \in (i + 1)..Len(address) : address[j] # ":"
HostPart(address) == SubSeq(address, 1, LastColon(address) - 1)
PortPart(address) == Atoi(SubSeq(address, LastColon(address) + 1, Len(address)))

\* C16: GetDatabase accepts an active status answer in both shapes: from one
\* that carries only dns_address_master "host:port" and endpoint_ip it returns
\* the host and the port on the two sides of the last ':' and endpoint_ip as
\* ip_list, and from one that carries both shapes it returns endpoints[0].
C16_BothShapesAccepted ==
    (/\ call.op = "GetDatabase"
     /\ Decodable(call.answer)
     /\ StatusIn(call.answer.obj) = "active"
     /\ "dns_address_master" \in DOMAIN call.answer.obj) =>
      LET obj == call.answer.obj IN
      /\ call.err = Nil
      /\ call.creds.Password = obj.authentication_redis_pass
      /\ IF EndpointsIn(obj) # <<>>
         THEN /\ call.creds.Host = obj.endpoints[1].dns_name
              /\ call.creds.Port = obj.endpoints[1].port
              /\ call.creds.IPList = obj.endpoints[1].addr
         ELSE /\ call.creds.Host = HostPart(obj.dns_address_master)
              /\ call.creds.Port = PortPart(obj.dns_address_master)
              /\ call.creds.IPList = obj.endpoint_ip

\* From an answer that carries both shapes GetDatabase returns endpoints[0].
EndpointsPreferred ==
    (/\ call.op = "GetDatabase"
     /\ Decodable(call.answer)
     /\ StatusIn(call.answer.obj) = "active"
     /\ "dns_address_master" \in DOMAIN call.answer.obj
     /\ EndpointsIn(call.answer.obj) # <<>>) =>
      /\ call.err = Nil
      /\ call.creds.Host = call.answer.obj.endpoints[1].dns_name
      /\ call.creds.Port = call.answer.obj.endpoints[1].port
      /\ call.creds.IPList = call.answer.obj.endpoints[1].addr

\* The uid contains a hyphen.
Hyphenated(UID) == "-" \in {UID[i] : i \in 1..Len(UID)}
\* The cluster answered with status 200.
Accepted(res) == res.transport = Nil /\ res.StatusCode = 200

DeleteCRDBWitness ==
    /\ call.op = "DeleteDatabase"
    /\ call.requests[1].path = <<"/v1/crdbs/">> \o GuidOf(2)
    /\ call.err = Nil

UpdateAcceptedWitness ==
    /\ call.op = "UpdateDatabase"
    /\ Accepted(call.answer)
    /\ call.err = Nil

(***************************************************************************)
(* Single calls of the translator: sharding and snapshot.                  *)
(***************************************************************************)
\* The call translated settings for a Provision or for an Update.
Translated == call.op \in {"Provision", "Update"}
\* The call translated settings from a plan: the plan of a Provision, the new
\* plan of an Update.
TranslatedFromPlan == call.op = "Provision" \/ (call.op = "Update" /\ call.planID # "")
\* The plan an Update is based on: the new plan or else the instance's plan.
BaseConfig ==
    IF call.op = "Provision" THEN call.config
    ELSE PlanConfig(IF call.planID # "" THEN call.planID ELSE call.current)
\* The shard count in effect: the user's shards_count or else the plan's.
EffectiveShardCount ==
    IF "shards_count" \in DOMAIN call.parameters
    THEN call.parameters.shards_count ELSE BaseConfig.shard_count
ShardingKeys == {"shards_count", "sharding", "implicit_shard_key", "shard_key_regex"}

\* The settings are those of a database of n shards.
Sharded(settings, n) ==
    IF n > 1
    THEN /\ ShardingKeys \subseteq DOMAIN settings
         /\ settings.shards_count = n
         /\ settings.sharding = TRUE
         /\ settings.implicit_shard_key = TRUE
         /\ settings.shard_key_regex =
              <<[regex |-> ".*\\{(?<tag>.*)\\}.*"], [regex |-> "(?<tag>.*)"]>>
    ELSE /\ {"sharding", "implicit_shard_key"} \subseteq DOMAIN settings
         /\ settings.sharding = FALSE
         /\ settings.implicit_shard_key = FALSE
         /\ "shard_key_regex" \notin DOMAIN settings

\* C19: for every plan and user parameters the settings of a Provision and of
\* an Update are those of a database with the effective shard count: more
\* than one shard gives shards_count, sharding, implicit_shard_key and the two
\* regexes, and otherwise both flags are false and there is no regex.
C19_ShardingFollowsShardCount ==
    Translated => Sharded(call.settings, EffectiveShardCount)

\* Settings translated from a plan, for a user who gives no sharding key, are
\* those of a database with the plan's shard count.
ShardingFollowsPlan ==
    (TranslatedFromPlan /\ DOMAIN call.parameters \cap ShardingKeys = {}) =>
      Sharded(call.settings, BaseConfig.shard_count)

\* C20 as stated: whenever the plan's persistence is "snapshot" the settings
\* have data_persistence "snapshot" and a snapshot_policy of one element with
\* the plan's writes and secs; data_persistence is the plan's persistence
\* unless the user overrides it.
C20_SnapshotPolicy ==
    TranslatedFromPlan =>
      /\ BaseConfig.persistence = "snapshot" =>
           /\ {"data_persistence", "snapshot_policy"} \subseteq DOMAIN call.settings
           /\ call.settings.data_persistence = "snapshot"
           /\ call.settings.snapshot_policy =
                <<[writes |-> BaseConfig.snapshot.writes, secs |-> BaseConfig.snapshot.secs]>>
      /\ "data_persistence" \notin DOMAIN call.parameters =>
           call.settings.data_persistence = BaseConfig.persistence

\* C20: whenever the persistence of the plan the settings are translated from
\* is "snapshot", the settings have data_persistence "snapshot" unless the
\* user gives data_persistence, and a snapshot_policy of one element with the
\* plan's writes and secs unless the user gives snapshot_policy; a key the
\* user gives carries the user's value, and data_persistence is the plan's
\* persistence unless the user overrides it.
C20_SnapshotPolicyUnlessOverridden ==
    TranslatedFromPlan =>
      /\ BaseConfig.persistence = "snapshot" =>
           /\ {"data_persistence", "snapshot_policy"} \subseteq DOMAIN call.settings
           /\ "data_persistence" \notin DOMAIN call.parameters =>
                call.settings.data_persistence = "snapshot"
           /\ "snapshot_policy" \notin DOMAIN call.parameters =>
                call.settings.snapshot_policy =
                  <<[writes |-> BaseConfig.snapshot.writes,
                     secs |-> BaseConfig.snapshot.secs]>>
      /\ \A k \in {"data_persistence", "snapshot_policy"} \cap DOMAIN call.parameters :
           call.settings[k] = call.parameters[k]
      /\ "data_persistence" \notin DOMAIN call.parameters =>
           call.settings.data_persistence = BaseConfig.persistence

\* An Update to the snapshot plan whose user overrides data_persistence has
\* sent the user's value beside the plan's snapshot policy.
C20_Witness ==
    /\ call.op = "Update"
    /\ call.planID = "test-plan-2"
    /\ call.parameters = [memory_size |-> Number(300000000), data_persistence |-> "aof"]
    /\ call.settings.data_persistence = "aof"
    /\ call.settings.snapshot_policy = <<[writes |-> 100, secs |-> 10]>>

(***************************************************************************)
(* The catalog.                                                            *)
(***************************************************************************)
\* C21: Services() returns, in every state and whatever ran before, exactly
\* one service with the configured id, name and description, the tag
\* "redislabs", bindable and plan_updatable true, and one plan per configured
\* plan, in the order of the configuration, with its id, name and description.
C21_ServicesIsTheConfiguredCatalog ==
    \A p \in Procs :
      Done(p, "Services") =>
        /\ result[p].err = Nil
        /\ trace[p] = <<>>
        /\ Len(result[p].val) = 1
        /\ LET service == result[p].val[1] IN
           /\ service.ID = "test-service"
           /\ service.Name = "redislabs test"
           /\ service.Description = "redislabs description"
           /\ service.Tags = <<"redislabs">>
           /\ service.Bindable = TRUE
           /\ service.PlanUpdatable = TRUE
           /\ service.Plans = <<[ID |-> "test-plan-1", Name |-> "test-1", Description |-> ""],
                                [ID |-> "test-plan-2", Name |-> "test-2", Description |-> ""]>>

\* Services() has returned after a Provision saved a record.
C21_Witness ==
    \E p \in Procs :
      /\ Done(p, "Services")
      /\ persisted # <<>>
      /\ \E q \in Procs \ {p} : Succeeded(q, "Provision")


\* The records of a state, as a set.
Records(s) == { s[i] : i \in 1..Len(s) }

\* C22: Save(s) followed by Load() returns, without error, a state with the
\* same set of records as s (ids, plan ids and credentials); Load() on an
\* absent or empty file returns the empty state without error; the record
\* Bind finds for an id in the loaded state is the one that was saved.
C22_SaveLoadRoundTrip ==
    call.op = "Load" =>
        /\ call.file.kind = "json" =>
               /\ call.file = Save(call.saved)
               /\ call.err = Nil
               /\ Records(call.state) = Records(call.saved)
               /\ \A r \in Records(call.saved) : Found(call.state, r.ID) = r
        /\ call.file \in {AbsentFile, EmptyFile} =>
               call.err = Nil /\ call.state = <<>>

\* A state of two records, one of them of a CRDB, was saved and loaded.
C22_Witness ==
    /\ call.op = "Load"
    /\ call.file.kind = "json"
    /\ Len(call.saved) = 2
    /\ \E r \in Records(call.state) : isCRDBUID(r.Credentials.UID)
    /\ \E r \in Records(call.state) : r = LegacyInstance

\* Load() was called when there was no file.
LoadAbsentWitness ==
    call.op = "Load" /\ call.file = AbsentFile /\ call.state = <<>>


\* What a part says its cluster is.
ClusterSaid(part) ==
    ClusterConfig(part.user, part.pass, part.fqdn,
                  IF part.addr # <<>> THEN part.addr ELSE part.fqdn)

\* C23: parsing the peer-clusters string (LoadFromFile parses it when it is
\* not empty) yields one cluster per part, in the order of the parts, each with the username and password of its part,
\* the fqdn as name, and as address the IPv4 after '/' when there is one and
\* the fqdn otherwise; when a part has not the shape user:pass@fqdn,
\* LoadFromFile returns an error and no configuration.
C23_PeerClustersParsed ==
    (call.op = "LoadFromFile" /\ call.file.kind = "yaml" /\ call.file.String # <<>>) =>
        IF \A i \in 1..Len(call.chosen) : PeerParts[call.chosen[i]].shaped
        THEN /\ call.err = Nil
             /\ Len(call.config.PeerClusters.Clusters) = Len(call.chosen)
             /\ \A i \in 1..Len(call.chosen) :
                    call.config.PeerClusters.Clusters[i] = ClusterSaid(PeerParts[call.chosen[i]])
        ELSE call.err # Nil /\ call.config = ZeroConfig

\* The string of the test was loaded: a part without and a part with an address.
C23_Witness ==
    /\ call.op = "LoadFromFile"
    /\ call.chosen = <<1, 2>>
    /\ call.err = Nil
    /\ call.config.PeerClusters.Clusters[2].Address = <<"1", "0", ".", "0", ".", "0", ".", "5">>

\* A string whose second part has no colon was refused.
PeerClustersRefusedWitness ==
    /\ call.op = "LoadFromFile"
    /\ call.chosen = <<1, 3>>
    /\ call.err = ErrInvalidPeerCluster


\* A step of an Unbind of task p: the whole call.
UnbindStep(p) ==
    /\ req'[p].op = "Unbind"
    /\ calls' = calls + 1
    /\ \A q \in Procs \ {p} : pc'[q] = pc[q] /\ req'[q] = req[q]

\* C24: Unbind returns success for every instance id and binding id, sends
\* nothing to the cluster and leaves the state file as it was.
C24_UnbindIsNoOp ==
    [][\A p \in Procs : UnbindStep(p) =>
          /\ pc'[p] = "done"
          /\ result'[p] = [err |-> Nil, val |-> Nil]
          /\ trace'[p] = <<>>
          /\ cluster' = cluster
          /\ persisted' = persisted]_vars

\* Unbind has returned success for an instance that is in the state file,
\* and for one that was never provisioned.
C24_Witness ==
    \E p, q \in Procs :
      /\ Succeeded(p, "Unbind")
      /\ InstanceExists(persisted, req[p].instanceID)
      /\ Succeeded(q, "Unbind")
      /\ ~InstanceExists(persisted, req[q].instanceID)


\* A round of the plain poller of task p, and the round finding the database
\* active with an endpoint.
PollStep(p) ==
    /\ poller[p].at = "poll"
    /\ req[p].type # "crdb"
    /\ trace'[p] # trace[p]
ReadyAnswer(p) == trace'[p][Len(trace'[p])] = Event("GET /v1/bdbs/{uid}", "active")

\* From some point on every GET /v1/bdbs/{uid} of task p is answered with
\* "active" and an endpoint; the rounds of p are not used up before that.
AnswersSettle(p) ==
    /\ <>[][PollStep(p) => ReadyAnswer(p)]_vars
    /\ [](poller[p].at = "poll" => Polls(p) < MaxPolls)

\* Task p waits on the channel of a database whose creation was answered 200.
Waiting(p) == pc[p] = "wait" /\ req[p].op = "Provision" /\ req[p].type # "crdb"

ProvisionedAndSaved(p) ==
    /\ Succeeded(p, "Provision")
    /\ InstanceExists(persisted, req[p].instanceID)

\* C25 as stated: under fair scheduling, once the creation was answered 200
\* and the answers settle on active, Provision returns success and the record
\* is in the state file.
C25_ProvisionSucceeds ==
    \A p \in Procs : AnswersSettle(p) => (Waiting(p) ~> ProvisionedAndSaved(p))

\* C25, amended: ... Provision returns, with success and the record in the
\* state file unless saving the state fails, and then with the persistence
\* error.
C25_ProvisionReturns ==
    \A p \in Procs :
      AnswersSettle(p) =>
        (Waiting(p) ~> (ProvisionedAndSaved(p) \/ Failed(p, "Provision", ErrPersistence)))

\* A Provision has returned success after a round that found the database
\* not active and a round that found it ready.
C25_Witness ==
    \E p \in Procs :
      /\ ProvisionedAndSaved(p)
      /\ trace[p] = <<Event("POST /v1/bdbs", "200"),
                      Event("GET /v1/bdbs/{uid}", "not active"),
                      Event("GET /v1/bdbs/{uid}", "active"),
                      Event("Save", "ok")>>


\* Task p's CreateDatabase, plain flow, has started its poller.
PlainPollerStarted(p) ==
    /\ req[p].op = "Provision"
    /\ req[p].type # "crdb"
    /\ poller[p].at # "none"

\* C26: the plain poller stops only by delivering credentials.  While no
\* round has found the database active with an endpoint (the rounds so far
\* met a transport error, an undecodable answer, a database not active or an
\* active one without endpoint), the poller is still polling and can go
\* another round, and Provision is still waiting: it has returned nothing,
\* no error either.  A poller that has stopped has found the database ready.
C26_PollerStopsOnlyByDelivering ==
    \A p \in Procs :
      PlainPollerStarted(p) =>
        IF ReadyPolls(p) = {}
        THEN /\ poller[p].at = "poll"
             /\ pc[p] = "wait"
             /\ result[p] = NoResult
             /\ Polls(p) < MaxPolls => ENABLED Poll(p)
        ELSE poller[p].at \in {"send", "exit"}

\* A poller is still polling, and its Provision waiting, after a round that
\* found no active database and a round that found an active one without
\* endpoint.
C26_Witness ==
    \E p \in Procs :
      /\ PlainPollerStarted(p)
      /\ poller[p].at = "poll"
      /\ pc[p] = "wait"
      /\ trace[p] = <<Event("POST /v1/bdbs", "200"),
                      Event("GET /v1/bdbs/{uid}", "not active"),
                      Event("GET /v1/bdbs/{uid}", "no endpoints")>>


\* The caller of CreateDatabase has abandoned the channel and the poller has
\* found the database active with an endpoint.
AbandonedAtActivation ==
    /\ call.op = "poller"
    /\ call.caller = "gone"
    /\ call.at # "poll"

\* C27: when the caller abandons the channel, the poller runs until the
\* database is reported active and then ends: it is not left blocked.
C27_AbandonedPollerEnds ==
    AbandonedAtActivation => call.at = "exit"

\* The poller of an abandoned channel, once at its send, stays there as long
\* as the call lasts.
AbandonedPollerStaysBlocked ==
    [][(AbandonedAtActivation /\ call.at = "send" /\ call'.op = "poller")
          => (call'.at = "send" /\ call'.caller = "gone")]_vars

\* A poller has found its database ready at the second round, the caller gone.
AbandonedPollerWitness ==
    /\ AbandonedAtActivation
    /\ call.rounds = 2
    /\ call.creds.Host = HostOf(3)

\* A caller has received the credentials and the poller has ended.
ReceivedWitness ==
    /\ call.op = "poller"
    /\ call.at = "exit"
    /\ call.received.Host = HostOf(3)


\* What the instances list says of configured peer cluster c.
PeerSaid(c) ==
    [name |-> c.Name,
     url |-> <<"http://">> \o c.Address \o <<":8080">>,
     credentials |-> [username |-> c.Auth.Username, password |-> c.Auth.Password]]

\* C28: CreateDatabase with settings of type "crdb" posts once, to /v1/crdbs
\* and never to /v1/bdbs, a document whose name is the user's name, whose
\* default_db_config is the settings without the type key, and whose
\* instances list has one entry per configured peer cluster, in the order of
\* the configuration, with the name, URL and credentials of the cluster;
\* settings of another type, or of none, are posted to /v1/bdbs.  (Without a
\* name in the settings there is no document, and no request at all.)
C28_CRDBPayload ==
    call.op = "CreateDatabase" =>
      IF call.type = "crdb" /\ ~HasName(call.settings)
      THEN call.requests = <<>>
      ELSE IF call.type = "crdb"
      THEN /\ SentOnly("POST", <<"/v1/crdbs">>)
           /\ call.body.name = "mydb"
           /\ "type" \notin DOMAIN call.body.default_db_config
           /\ \A k \in DOMAIN call.settings \ {"type"} :
                /\ k \in DOMAIN call.body.default_db_config
                /\ call.body.default_db_config[k] = call.settings[k]
           /\ DOMAIN call.body.default_db_config \subseteq DOMAIN call.settings
           /\ Len(call.body.instances) = Len(call.clusters)
           /\ \A i \in 1..Len(call.clusters) :
                call.body.instances[i].cluster = PeerSaid(call.clusters[i])
      ELSE SentOnly("POST", <<"/v1/bdbs">>)

\* A CRDB was requested of a client made for two peer clusters, the second
\* with an address of its own, and the cluster accepted the request.
C28_Witness ==
    /\ call.op = "CreateDatabase"
    /\ call.type = "crdb"
    /\ call.channel
    /\ Len(call.body.instances) = 2
    /\ call.body.instances[1].cluster.url = <<"http://", "c", "1", ":8080">>
    /\ call.body.instances[2].cluster.url
         = <<"http://", "1", "0", ".", "0", ".", "0", ".", "5", ":8080">>
    /\ call.body.default_db_config.memory_size = PlanConfig("test-plan-1").memory_limit

\* Settings of a type other than "crdb" were posted to /v1/bdbs, type and all.
OtherTypeWitness ==
    /\ call.op = "CreateDatabase"
    /\ call.type = "redis"
    /\ call.body.type = "redis"
    /\ SentOnly("POST", <<"/v1/bdbs">>)


\* Task p's CreateDatabase, CRDB flow, has started its poller.
CRDBPollerStarted(p) ==
    /\ req[p].op = "Provision"
    /\ req[p].type = "crdb"
    /\ poller[p].at # "none"

\* A round of task p found the creation task finished.
TaskFinishedSeen(p) ==
    \E i \in 1..Len(trace[p]) : trace[p][i] = Event("GET /v1/crdb_tasks/{id}", "finished")

\* The CRDB poller of task p has sent nothing before a GET /v1/crdb_tasks/{id}
\* returned "finished".
NothingBeforeFinished(p) ==
    poller[p].at \in {"send", "exit"} => TaskFinishedSeen(p)

\* C29: in the CRDB flow the poller sends nothing before a GET
\* /v1/crdb_tasks/{id} returned "finished", and the value it then sends is
\* the credentials of the database of the CRDB's GUID in the GET /v1/bdbs
\* list (host, port and ip_list of its first endpoint, its password), with
\* the GUID as uid.
C29_CRDBPollerSendsCredentials ==
    \A p \in Procs :
      CRDBPollerStarted(p) =>
        /\ NothingBeforeFinished(p)
        /\ poller[p].at \in {"send", "exit"} =>
             poller[p].creds = ClusterCredentials(poller[p].dbUid)

\* The first half alone.
CRDBNothingBeforeFinished ==
    \A p \in Procs : CRDBPollerStarted(p) => NothingBeforeFinished(p)

\* A CRDB poller has sent the credentials of its database at its second
\* round, the first having found the task not finished.
CRDBPollerWitness ==
    \E p \in Procs :
      /\ CRDBPollerStarted(p)
      /\ poller[p].at = "send"
      /\ Polls(p) = 2
      /\ poller[p].creds = ClusterCredentials(poller[p].dbUid)


\* C30: deleting a CRDB sends one DELETE to /v1/crdbs/{guid} and no request
\* to /v1/crdb_tasks; it succeeds whenever the cluster answers 200, and on
\* another status fails, with the error made of the cluster's description
\* when the cluster answered with one.
C30_DeleteCRDBSucceedsOn200 ==
    (call.op = "DeleteDatabase" /\ Hyphenated(call.UID)) =>
      /\ SentOnly("DELETE", <<"/v1/crdbs/">> \o call.UID)
      /\ Accepted(call.answer) => call.err = Nil
      /\ Rejected(call.answer) =>
           /\ call.err # Nil
           /\ Described(call.answer) => call.err = Errorf(call.answer.obj.description)

\* What DeleteCRDB does: as above, but a 200 is a success only with a body
\* that can be decoded.
DeleteCRDBSucceedsOnTask ==
    (call.op = "DeleteDatabase" /\ Hyphenated(call.UID)) =>
      /\ SentOnly("DELETE", <<"/v1/crdbs/">> \o call.UID)
      /\ Accepted(call.answer) => (call.err = Nil <=> Decodable(call.answer))
      /\ Rejected(call.answer) =>
           /\ call.err # Nil
           /\ Described(call.answer) => call.err = Errorf(call.answer.obj.description)

\* The deletion of a CRDB was accepted while its removal task was only queued.
C30_Witness ==
    /\ call.op = "DeleteDatabase"
    /\ call.UID = GuidOf(2)
    /\ Accepted(call.answer)
    /\ Decodable(call.answer)
    /\ call.answer.obj.status = "queued"
    /\ call.err = Nil

\* The deletion of a CRDB was refused with a description.
DeleteCRDBRefusedWitness ==
    /\ call.op = "DeleteDatabase"
    /\ call.UID = GuidOf(2)
    /\ Rejected(call.answer)
    /\ call.err = "invalid input data"


\* Task p's Bind has found the record of its instance.
BoundInstance(p) == Done(p, "Bind") /\ inst[p] # NoInstance

\* C31: Bind contacts the cluster only for legacy records.  For a record with
\* a host it returns that host and sends nothing; for a record without host
\* it sends one GetDatabase(uid) and returns the host that call reports; the
\* port, ip_list and password are the record's in both cases.
C31_BindAsksClusterOnlyForLegacy ==
    \A p \in Procs :
      BoundInstance(p) =>
        LET creds == inst[p].Credentials
            val == result[p].val
        IN  /\ val.port = creds.Port
            /\ val.ip_list = creds.IPList
            /\ val.password = creds.Password
            /\ creds.Host # <<>> => (trace[p] = <<>> /\ val.host = creds.Host)
            /\ creds.Host = <<>> =>
                 /\ Len(trace[p]) = 1
                 /\ trace[p][1].req = "GET /v1/bdbs/{uid}"
                 /\ trace[p][1].res = "active" => val.host = ClusterHost(creds.UID)

\* A Bind of a record that holds its host has returned it without a request,
\* the record being one a Provision saved.
C31_Witness ==
    \E p \in Procs :
      /\ BoundInstance(p)
      /\ inst[p].Credentials.Host # <<>>
      /\ result[p].val.host = inst[p].Credentials.Host
      /\ trace[p] = <<>>

\* A Bind of the legacy record has asked the cluster once and returned its host.
LegacyBindWitness ==
    \E p \in Procs :
      /\ BoundInstance(p)
      /\ inst[p] = LegacyInstance
      /\ trace[p] = <<Event("GET /v1/bdbs/{uid}", "active")>>
      /\ result[p].val.host = HostOf(1)


\* No operation has returned the NotActive error.
NotActiveNeverReturned ==
    \A p \in Procs : result[p].err # errDbIsNotActive

\* The last status answer task p's poller got did not report an active database.
LastAnswerNotActive(p) ==
    /\ Len(trace[p]) > 0
    /\ trace[p][Len(trace[p])] \in {Event("GET /v1/bdbs/{uid}", "not active"),
                                    Event("GET /v1/bdbs", "not active")}

\* C32: no operation returns the NotActive error to its caller, and in the
\* readiness pollers, of the plain and of the CRDB flow, a status answer that
\* does not report an active database only causes another round.
C32_NotActiveStaysInPoller ==
    \A p \in Procs :
      /\ result[p].err # errDbIsNotActive
      /\ (req[p].op = "Provision" /\ poller[p].at # "none" /\ LastAnswerNotActive(p))
           => poller[p].at = "poll"

\* The same for the plain flow alone.
PlainNotActiveStaysInPoller ==
    \A p \in Procs :
      (req[p].op = "Provision" /\ req[p].type # "crdb" /\ poller[p].at # "none"
         /\ LastAnswerNotActive(p))
        => poller[p].at = "poll"

\* A Bind of the legacy record has met a database that is not active and has
\* returned success.
NotActiveSwallowedWitness ==
    \E p \in Procs :
      /\ Succeeded(p, "Bind")
      /\ trace[p] = <<Event("GET /v1/bdbs/{uid}", "not active")>>


\* The step in which task p's CreateDatabase fails and its Provision returns.
CreateFails(p) == req[p].op = "Provision" /\ pc[p] = "create" /\ pc'[p] = "done"

\* The errors CreateDatabase can return for the request of task p.
CreateErrors(p) ==
    (IF req[p].type = "crdb"
     THEN { CreateCRDB(res).err : res \in PostCrdbsAnswers(cluster) }
     ELSE { CreateDatabase(res).err : res \in PostBdbsAnswers(cluster) }) \ {Nil}

\* The step in which task p calls Provision for an instance without record,
\* with the configured service and one of its plans.
ProvisionOfFreeID(p) ==
    /\ calls' = calls + 1
    /\ req'[p].op = "Provision"
    /\ pc'[p] # pc[p] \/ req'[p] # req[p] \/ result'[p] # result[p]
    /\ req'[p].ServiceID = ServiceID
    /\ req'[p].PlanID \in PlanIDs
    /\ ~InstanceExists(persisted, req'[p].instanceID)

\* C33: when CreateDatabase fails synchronously Provision returns its error,
\* saves nothing and has no poller, so the state file is what it was; and a
\* Provision of an instance that has no record is not rejected with
\* InstanceAlreadyExists, the one that follows a failed creation included.
C33_FailedCreateLeavesNoTrace ==
    [][\A p \in Procs :
         /\ CreateFails(p) =>
              /\ result'[p].err \in CreateErrors(p)
              /\ persisted' = persisted
              /\ poller'[p].at = "none"
              /\ Len(trace'[p]) = 1
         /\ ProvisionOfFreeID(p) => pc'[p] = "create"]_vars

\* A Provision has failed at its creation request, nothing is saved, and a
\* Provision of the same instance is on its way to the cluster.
C33_Witness ==
    \E p, q \in Procs :
      /\ Done(p, "Provision")
      /\ trace[p] = <<Event("POST /v1/bdbs", "not 200")>>
      /\ result[p].err = "invalid input data"
      /\ persisted = <<>>
      /\ req[q].op = "Provision"
      /\ req[q].instanceID = req[p].instanceID
      /\ pc[q] = "create"


\* The errors with which the broker refuses a request it has validated.
ValidationErrors ==
    {ErrServiceDoesNotExist, ErrPlanDoesNotExist, ErrInstanceDoesNotExist,
     ErrInstanceAlreadyExists}

Refused(p) == pc[p] = "done" /\ result[p].err \in ValidationErrors

\* The step in which task p calls an operation that is refused.
RefusalStep(p) ==
    /\ calls' = calls + 1
    /\ Refused(p)'
    /\ \A q \in Procs \ {p} : pc'[q] = pc[q] /\ req'[q] = req[q]

\* C34: an operation that ends with a validation error has sent no request to
\* the cluster, and the step that makes the call leaves the state file and
\* the cluster as they were.
C34_RefusalTouchesNothing ==
    [][\A p \in Procs :
         /\ Refused(p)' => trace'[p] = <<>>
         /\ RefusalStep(p) => persisted' = persisted /\ cluster' = cluster]_vars

\* An instance is saved, one task was refused a second Provision of it and
\* another a Bind of an instance that has no record.
C34_Witness ==
    \E p, q \in Procs :
      /\ Done(p, "Provision") /\ result[p].err = ErrInstanceAlreadyExists
      /\ Done(q, "Bind") /\ result[q].err = ErrInstanceDoesNotExist
      /\ persisted # <<>>
      /\ trace[p] = <<>> /\ trace[q] = <<>>


\* The step in which task p calls Bind.
BindCallStep(p) ==
    /\ calls' = calls + 1
    /\ req'[p].op = "Bind"
    /\ \A q \in Procs \ {p} : pc'[q] = pc[q] /\ req'[q] = req[q]

\* The step in which task p's Bind gets the cluster's answer and returns.
BindAnswerStep(p) == pc[p] = "gethost" /\ pc'[p] = "done"

\* C35: no step of a Bind changes the state file, whatever the outcome; the
\* host a Bind got from the cluster is not written back, so a Bind of a record
\* that is saved without host asks the cluster, every time.
C35_BindIsReadOnly ==
    [][\A p \in Procs :
         /\ (BindCallStep(p) \/ BindAnswerStep(p)) => persisted' = persisted
         /\ (BindCallStep(p) /\ pc'[p] # pc[p]
               /\ InstanceExists(persisted, req'[p].instanceID)
               /\ Found(persisted, req'[p].instanceID).Credentials.Host = <<>>)
            => pc'[p] = "gethost"]_vars

\* Two Binds of the record saved without host have both got its host from the
\* cluster, and the record is still saved without host.
C35_Witness ==
    \E p, q \in Procs :
      /\ p # q
      /\ Succeeded(p, "Bind") /\ Succeeded(q, "Bind")
      /\ trace[p] = <<Event("GET /v1/bdbs/{uid}", "active")>>
      /\ trace[q] = <<Event("GET /v1/bdbs/{uid}", "active")>>
      /\ result[p].val.host = HostOf(1) /\ result[q].val.host = HostOf(1)
      /\ persisted = <<LegacyInstance>>


\* Task p's Bind found the record without host and GetDatabase failed.
HostFallbackFailed(p) ==
    /\ BoundInstance(p)
    /\ inst[p].Credentials.Host = <<>>
    /\ Len(trace[p]) = 1
    /\ trace[p][1].res # "active"

\* C36: a Bind of an instance that has a record never fails; when the record
\* has no host and GetDatabase fails (no answer, an answer that cannot be
\* read, a database that is not active or has no endpoint) Bind succeeds with
\* the empty host and the port, ip_list and password of the record.
C36_BindSurvivesHostFallback ==
    \A p \in Procs :
      /\ BoundInstance(p) => result[p].err = Nil
      /\ HostFallbackFailed(p) =>
           result[p].val = [host |-> <<>>,
                            port |-> inst[p].Credentials.Port,
                            ip_list |-> inst[p].Credentials.IPList,
                            password |-> inst[p].Credentials.Password]

\* A Bind of the record without host found its database without endpoint and
\* returned the binding with the empty host.
C36_Witness ==
    \E p \in Procs :
      /\ HostFallbackFailed(p)
      /\ trace[p][1].res = "no endpoints"
      /\ result[p].err = Nil
      /\ result[p].val.host = <<>>
      /\ result[p].val.port = LegacyInstance.Credentials.Port

\* The same when the database is not active or the cluster does not answer.
HostFallbackNotActiveWitness ==
    \E p \in Procs :
      /\ HostFallbackFailed(p)
      /\ trace[p][1].res = "not active"
      /\ result[p].val.host = <<>>


\* Whenever task p has asked for its creation task it has found it failed.
OnlyFailedSeen(p) ==
    \A i \in 1..Len(trace[p]) :
      trace[p][i].req = "GET /v1/crdb_tasks/{id}" => trace[p][i].res = "failed"

\* Every GET /v1/crdb_tasks/{id} of task p finds the task failed.
TaskHasFailed(p) == []OnlyFailedSeen(p)

\* Task p waits on the channel of a CRDB whose creation was answered 200.
WaitingCRDB(p) ==
    /\ pc[p] = "wait"
    /\ req[p].op = "Provision"
    /\ req[p].type = "crdb"
    /\ poller[p].at = "poll"

C38_CreateDatabaseAlwaysReturns ==
    call.op = "CreateDatabase" =>
      /\ ~call.aborted
      /\ call.channel <=> call.err = Nil

\* The same of the settings that are not CRDB settings without a name.
CreateDatabaseReturnsGivenName ==
    (call.op = "CreateDatabase" /\ (call.type # "crdb" \/ HasName(call.settings))) =>
      /\ ~call.aborted
      /\ call.channel <=> call.err = Nil

\* CreateDatabase was called with CRDB settings without a name and has
\* neither sent a request nor returned.
AbortedCreateWitness ==
    /\ call.op = "CreateDatabase"
    /\ call.type = "crdb"
    /\ ~HasName(call.settings)
    /\ call.aborted
    /\ call.requests = <<>>
    /\ ~call.channel

====
